---- MODULE Spec2Model ----
(***************************************************************************)
(* Generation-validation-retry pipeline of the agent factory.              *)
(*                                                                         *)
(*   code_validator.py            validate_code_syntax / _security / _code *)
(*   tools/generate_agent_code.py generate_agent_code_with_retry           *)
(*   tools/generate_agent_specification.py                                 *)
(*                                generate_agent_specification_with_retry  *)
(*   meta_agent/generators/script_generator.py   generate_script           *)
(*   simple_example_agent_factory.py             main (steps 5 to 7)       *)
(*                                                                         *)
(* Texts are abstract: a Python text is the outcome of ast.parse on it     *)
(* (the nodes the validators walk, or the exception raised), a message is  *)
(* a sequence of string fragments in the order the f-string lays them out. *)
(* risk_score is counted in tenths (0.3 is 3); the float sums the code     *)
(* forms from 0.1, 0.3 and 0.4 compare to 0.5 and 1.0 as the exact sums do.*)
(***************************************************************************)
EXTENDS Integers, Sequences, FiniteSets, TLC

VARIABLES
    code,              \* validator run: the text handed to validate_code
    syntax_result,     \* validator run: validate_code_syntax(code)
    security_result,   \* validator run: validate_code_security(code)
    combined_result,   \* validator run: validate_code(code)
    vpc,               \* validator run: "building" | "validated" | "idle"
    loop,              \* retry run: "code" | "spec" | "script" | "none", the function running
    caller,            \* retry run: "direct" | "main" (simple_example_agent_factory.main)
                       \*            | "executor" (script_executor.main)
    yaml_specification,\* retry run: what yaml.safe_load makes of the argument
    max_retries,       \* retry run: the max_retries argument
    attempt,           \* retry run: the for loop's index
    pc,                \* retry run: "generating" | "returned" | "raised" | main's steps
    additional_instructions, \* retry run: the feedback local of the code and spec loops
    system_prompt,     \* retry run: generate_script's system_prompt local
    calls,             \* retry run: the llm_client.generate calls made, with their response
    files,             \* retry run: the debug files under /tmp, by path
    result,            \* retry run: what the function returned
    error,             \* retry run: what the function raised
    validation,        \* main: validate_code of the generated code (step 6)
    written,           \* main: the code handed to write_agent_files (step 7)
    exit_code,         \* main: its return value, -1 while running
    peer,              \* concurrent runs: the locals of the invocation not running now
    cancel_requested,  \* the caller's cancellation signal (external to the functions)
    document,          \* specification run: what yaml.safe_load makes of spec_content
    edits,             \* specification run: the fields changed from the complete document
    strict_mode,       \* specification run: the strict_mode argument
    spec_outcome,      \* specification run: what validate_specification returned or raised
    dpc,               \* specification run: "editing" | "validated" | "idle"
    script,            \* script run: what the scans of validate_script find in script_code
    script_validation, \* script run: validate_script(script_code, strict_mode)
    executed,          \* script_executor.main: the scripts handed to execute_script_in_container
    spc                \* script run: "writing" | "validated" | "idle"

vvars == <<code, syntax_result, security_result, combined_result, vpc>>
rvars == <<loop, caller, yaml_specification, max_retries, attempt, pc,
           additional_instructions, system_prompt, calls, files, result, error>>
mvars == <<validation, written, exit_code>>
evars == <<peer, cancel_requested>>
dvars == <<document, edits, strict_mode, spec_outcome, dpc>>
svars == <<script, script_validation, executed, spc>>

(***************************************************************************)
(* Bounds of the explored inputs.                                          *)
(***************************************************************************)
MaxStmts == 5          \* statements (imports, calls, credential lines) of a text
MaxRetries == 3        \* largest max_retries of a direct call of a retry function
MaxConcurrentRetries == 2  \* largest max_retries of each of two concurrent invocations

(***************************************************************************)
(* code_validator.py: policy tables and increments (tenths).               *)
(***************************************************************************)
DANGEROUS_FUNCTIONS == {"eval", "exec", "compile", "__import__", "execfile", "input", "open"}

DANGEROUS_IMPORTS == {"subprocess", "socket", "urllib", "pickle", "marshal", "ctypes", "cffi"}

CONDITIONAL_IMPORTS ==
    [m \in {"os", "sys", "requests"} |->
        CASE m = "os" -> {"getenv", "environ.get", "path"}
          [] m = "sys" -> {"argv", "exit"}
          [] OTHER -> {}]

ALLOWED_IMPORTS ==
    {"typing", "dataclasses", "enum", "abc", "collections", "datetime", "decimal",
     "fractions", "math", "statistics", "json", "re", "pathlib", "pydantic", "loguru",
     "sqlalchemy", "psycopg2", "langchain", "langchain_openai", "langgraph", "yaml",
     "httpx", "os", "sys", "requests"}

\* module.startswith('meta_agent'), over the module names the model uses
StartsWithMetaAgent(module) == module \in {"meta_agent", "meta_agent_tools"}

RISK_DANGEROUS_CALL == 3
RISK_DANGEROUS_IMPORT == 4
RISK_UNCOMMON_IMPORT == 1
RISK_UNSAFE_USAGE == 3
RISK_HARDCODED == 3
RISK_CAP == 10
RISK_THRESHOLD == 5
MAX_FUNCTION_COUNT == 50

(***************************************************************************)
(* Texts.  parse is what ast.parse(text) does: "ok" (the nodes are in      *)
(* imports, calls, funcs, classes, other), "SyntaxError" (lineno, msg) or  *)
(* "Exception" (any other exception, msg).  creds are the assignments of   *)
(* credential-like names.  raw is the text itself, as the regular          *)
(* expressions of the credential scan see it: a sequence of tokens, "\n"   *)
(* for a newline; offsets into raw count tokens from 0, as str offsets do. *)
(***************************************************************************)
NoLineno == -1         \* e.lineno is None

EmptyText ==
    [id |-> "", parse |-> "ok", lineno |-> NoLineno, msg |-> "", nlines |-> 0,
     imports |-> <<>>, calls |-> <<>>, creds |-> <<>>,
     funcs |-> 0, classes |-> 0, other |-> 0, raw |-> <<>>]

Issue(sev, type, message, line) ==
    [severity |-> sev, issue_type |-> type, message |-> message, line_number |-> line]

ValidationResult(valid, issues, risk) ==
    [valid |-> valid, issues |-> issues, risk_score |-> risk]

NoResult == ValidationResult(FALSE, <<>>, 0)

HasError(issues) == \E i \in 1..Len(issues) : issues[i].severity = "ERROR"

Min(a, b) == IF a < b THEN a ELSE b
Max(a, b) == IF a > b THEN a ELSE b

\* str(x) of an int or None
Str(n) == IF n = NoLineno THEN "None" ELSE ToString(n)

\* [f(s[i]) for i in order if keep(s[i])], then flattened issue lists
RECURSIVE Concat(_)
Concat(ss) == IF ss = <<>> THEN <<>> ELSE Head(ss) \o Concat(Tail(ss))

(***************************************************************************)
(* validate_code_syntax                                                    *)
(***************************************************************************)
\* a plausible slip: a text without structure is rejected
validate_code_syntax_StructureRequired(text) ==
    IF text.parse = "ok" THEN
        LET body_empty == /\ Len(text.imports) = 0 /\ Len(text.calls) = 0
                          /\ Len(text.creds) = 0 /\ text.funcs = 0 /\ text.classes = 0 /\ text.other = 0
            has_class == text.classes > 0
            has_function == text.funcs > 0
            issues ==
                (IF body_empty
                    THEN <<Issue("WARNING", "syntax", <<"Code is empty or contains only comments">>, 0)>>
                    ELSE <<>>)
                \o
                (IF ~has_class /\ ~has_function
                    THEN <<Issue("ERROR", "syntax", <<"Code contains no classes or functions">>, 0)>>
                    ELSE <<>>)
        IN  ValidationResult(~HasError(issues), issues, 0)
    ELSE IF text.parse = "SyntaxError" THEN
        ValidationResult(FALSE,
            <<Issue("ERROR", "syntax", <<"Syntax error: ", text.msg>>,
                    IF text.lineno = NoLineno THEN 0 ELSE text.lineno)>>, 0)
    ELSE
        ValidationResult(FALSE,
            <<Issue("ERROR", "syntax", <<"Failed to parse code: ", text.msg>>, 0)>>, 0)

validate_code_syntax(text) ==
    IF text.parse = "ok" THEN
        LET body_empty == /\ Len(text.imports) = 0 /\ Len(text.calls) = 0
                          /\ Len(text.creds) = 0 /\ text.funcs = 0 /\ text.classes = 0 /\ text.other = 0
            has_class == text.classes > 0
            has_function == text.funcs > 0
            issues ==
                (IF body_empty
                    THEN <<Issue("WARNING", "syntax", <<"Code is empty or contains only comments">>, 0)>>
                    ELSE <<>>)
                \o
                (IF ~has_class /\ ~has_function
                    THEN <<Issue("WARNING", "syntax", <<"Code contains no classes or functions">>, 0)>>
                    ELSE <<>>)
        IN  ValidationResult(~HasError(issues), issues, 0)
    ELSE IF text.parse = "SyntaxError" THEN
        ValidationResult(FALSE,
            <<Issue("ERROR", "syntax", <<"Syntax error: ", text.msg>>,
                    IF text.lineno = NoLineno THEN 0 ELSE text.lineno)>>, 0)
    ELSE
        ValidationResult(FALSE,
            <<Issue("ERROR", "syntax", <<"Failed to parse code: ", text.msg>>, 0)>>, 0)

(***************************************************************************)
(* validate_code_security                                                  *)
(***************************************************************************)
\* alias.name.split('.')[0] / node.module.split('.')[0]
ModuleRoot_LastComponent(name) == name[Len(name)]

ModuleRoot(name) == name[1]

\* Check 1: func_name of a call node (Name id, Attribute attr, else None)
FuncName(call) == IF call.kind \in {"name", "attr", "attrattr"} THEN call.attr ELSE "None"

\* a plausible slip: only direct names are looked up, attribute tails are not
DangerousCallIssues_NamesOnly(text) ==
    Concat([i \in 1..Len(text.calls) |->
        IF text.calls[i].kind = "name" /\ text.calls[i].attr \in DANGEROUS_FUNCTIONS
            THEN <<Issue("ERROR", "security",
                         <<"Dangerous function call: ", text.calls[i].attr, "()">>,
                         text.calls[i].lineno)>>
            ELSE <<>>])

DangerousCallIssues(text) ==
    Concat([i \in 1..Len(text.calls) |->
        IF FuncName(text.calls[i]) \in DANGEROUS_FUNCTIONS
            THEN <<Issue("ERROR", "security",
                         <<"Dangerous function call: ", FuncName(text.calls[i]), "()">>,
                         text.calls[i].lineno)>>
            ELSE <<>>])

\* Check 2: one import node (ast.Import alias or ast.ImportFrom)
ImportIssue(imp) ==
    IF imp.form = "import" THEN
        LET module == ModuleRoot(imp.name) IN
        IF module \in DANGEROUS_IMPORTS
            THEN <<Issue("ERROR", "security", <<"Dangerous import: ", module>>, imp.lineno)>>
        ELSE IF module \in DOMAIN CONDITIONAL_IMPORTS
            THEN <<>>
        ELSE IF module \notin ALLOWED_IMPORTS /\ ~StartsWithMetaAgent(module)
            THEN <<Issue("WARNING", "security", <<"Uncommon import: ", module>>, imp.lineno)>>
        ELSE <<>>
    ELSE
        IF imp.name = <<>> THEN <<>>       \* node.module is None
        ELSE LET module == ModuleRoot(imp.name) IN
             IF module \in DANGEROUS_IMPORTS
                THEN <<Issue("ERROR", "security", <<"Dangerous import: from ", module>>, imp.lineno)>>
                ELSE <<>>

ImportIssues(text) == Concat([i \in 1..Len(text.imports) |-> ImportIssue(text.imports[i])])

\* conditional_modules: the imported roots that are keys of CONDITIONAL_IMPORTS
ConditionalModules(text) ==
    {ModuleRoot(text.imports[i].name) : i \in {j \in 1..Len(text.imports) : text.imports[j].name # <<>>}}
        \cap DOMAIN CONDITIONAL_IMPORTS

\* Check 2b: calls module_name.func_name(...) of a tracked conditional module
UnsafeUsageIssues(text) ==
    Concat([i \in 1..Len(text.calls) |->
        LET c == text.calls[i] IN
        IF /\ c.kind = "attr"
           /\ c.base \in ConditionalModules(text)
           /\ CONDITIONAL_IMPORTS[c.base] # {}
           /\ c.attr \notin CONDITIONAL_IMPORTS[c.base]
            THEN <<Issue("ERROR", "security", <<"Unsafe usage of ", c.base, ".", c.attr, "()">>, c.lineno)>>
            ELSE <<>>])

\* Check 3 (hardcoded_patterns): the tokens each pattern matches, with its message
hardcoded_patterns ==
    << [matches |-> {"password = 'admin123'", "password = 'abc'"}, message |-> "Hardcoded password"],
       [matches |-> {"api_key = 'sk-12345678'"}, message |-> "Hardcoded API key"],
       [matches |-> {"secret = 'abcdefgh'"}, message |-> "Hardcoded secret"],
       [matches |-> {"token = 'abcdefgh'"}, message |-> "Hardcoded token"] >>

\* safe_patterns: the tokens one of them matches
safe_patterns == {"os.getenv(", "os.environ", "getenv(", "= ''", "= \"\""}

\* s[:-1] of a token: what is left of it without its last character
DropLastChar(tok) ==
    CASE tok = "os.environ" -> "os.enviro"
      [] tok = "os.getenv(" -> "os.getenv"
      [] tok = "getenv(" -> "getenv"
      [] tok = "= ''" -> "= '"
      [] tok = "= \"\"" -> "= \""
      [] tok = "password = 'admin123'" -> "password = 'admin123"
      [] tok = "password = 'abc'" -> "password = 'abc"
      [] OTHER -> "..."

\* code.rfind('\n', 0, hi): -1 when there is none
RFindNewline(raw, hi) ==
    LET at == {o \in 0..(hi - 1) : raw[o + 1] = "\n"}
    IN  IF at = {} THEN -1 ELSE CHOOSE o \in at : \A q \in at : q <= o

\* code.find('\n', lo): -1 when there is none
FindNewline(raw, lo) ==
    LET at == {o \in lo..(Len(raw) - 1) : raw[o + 1] = "\n"}
    IN  IF at = {} THEN -1 ELSE CHOOSE o \in at : \A q \in at : o <= q

\* code[lo:hi]; hi = -1 stops before the last character of the text
Slice(raw, lo, hi) ==
    IF hi >= 0 THEN SubSeq(raw, lo + 1, hi)
    ELSE IF lo >= Len(raw) THEN <<>>
    ELSE Append(SubSeq(raw, lo + 1, Len(raw) - 1), DropLastChar(raw[Len(raw)]))

\* code[code.rfind('\n', 0, match.start())+1 : code.find('\n', match.end())]
MatchedLine(raw, start, end) ==
    Slice(raw, RFindNewline(raw, start) + 1, FindNewline(raw, end))

\* any(re.search(safe_pattern, matched_line) for safe_pattern in safe_patterns)
IsSafeLine(matched_line) ==
    \E i \in 1..Len(matched_line) : matched_line[i] \in safe_patterns

\* code[:match.start()].count('\n') + 1
LineNum_ZeroBased(raw, start) == Cardinality({o \in 0..(start - 1) : raw[o + 1] = "\n"})

LineNum(raw, start) == Cardinality({o \in 0..(start - 1) : raw[o + 1] = "\n"}) + 1

\* Check 3: for each pattern, for each match in text order
HardcodedIssues(text) ==
    Concat([p \in 1..Len(hardcoded_patterns) |->
        Concat([i \in 1..Len(text.raw) |->
            LET start == i - 1
                end == i
            IN  IF /\ text.raw[i] \in hardcoded_patterns[p].matches
                   /\ ~IsSafeLine(MatchedLine(text.raw, start, end))
                    THEN <<Issue("ERROR", "security", <<hardcoded_patterns[p].message>>,
                                 LineNum(text.raw, start))>>
                    ELSE <<>>])])

\* Check 4
ComplexityIssues(text) ==
    IF text.funcs > MAX_FUNCTION_COUNT
        THEN <<Issue("WARNING", "quality", <<"Very high function count: ", ToString(text.funcs)>>, 0)>>
        ELSE <<>>

CountSeverity(issues, sev) == Cardinality({i \in 1..Len(issues) : issues[i].severity = sev})

\* a plausible slip: only ERROR issues gate, the score is not consulted
IsSafe_ErrorsOnly(has_errors, risk_score) == ~has_errors

\* is_safe = not has_errors and risk_score < 0.5
IsSafe(has_errors, risk_score) == ~has_errors /\ risk_score < RISK_THRESHOLD

validate_code_security(text) ==
    IF text.parse = "ok" THEN
        LET c1 == DangerousCallIssues(text)
            c2 == ImportIssues(text)
            c2b == UnsafeUsageIssues(text)
            c3 == HardcodedIssues(text)
            c4 == ComplexityIssues(text)
            issues == c1 \o c2 \o c2b \o c3 \o c4
            accumulated ==
                  RISK_DANGEROUS_CALL * Len(c1)
                + RISK_DANGEROUS_IMPORT * CountSeverity(c2, "ERROR")
                + RISK_UNCOMMON_IMPORT * CountSeverity(c2, "WARNING")
                + RISK_UNSAFE_USAGE * Len(c2b)
                + RISK_HARDCODED * Len(c3)
            risk_score == Min(accumulated, RISK_CAP)
            has_errors == HasError(issues)
            is_safe == IsSafe(has_errors, risk_score)
        IN  ValidationResult(is_safe, issues, risk_score)
    ELSE
        ValidationResult(FALSE,
            <<Issue("ERROR", "security", <<"Security validation failed: ", text.msg>>, 0)>>,
            RISK_CAP)

(***************************************************************************)
(* validate_code                                                           *)
(***************************************************************************)
\* a plausible slip: overall_valid forgets the security result
validate_code_SyntaxValidOnly(text) ==
    LET syn == validate_code_syntax(text) IN
    IF ~syn.valid THEN syn
    ELSE LET sec == validate_code_security(text) IN
         ValidationResult(syn.valid, syn.issues \o sec.issues, sec.risk_score)

\* a plausible slip: the security validator runs whatever the syntax result
validate_code_NoShortCircuit(text) ==
    LET syn == validate_code_syntax(text)
        sec == validate_code_security(text)
    IN  ValidationResult(syn.valid /\ sec.valid, syn.issues \o sec.issues, sec.risk_score)

validate_code(text) ==
    LET syn == validate_code_syntax(text) IN
    IF ~syn.valid THEN syn
    ELSE LET sec == validate_code_security(text) IN
         ValidationResult(syn.valid /\ sec.valid, syn.issues \o sec.issues, sec.risk_score)

(***************************************************************************)
(* The generation collaborator (meta_agent/utils/llm_client.py) and the    *)
(* texts it may answer with.                                               *)
(***************************************************************************)
Err(cls, msg) == [cls |-> cls, msg |-> msg]
NoError == Err("none", <<>>)

\* LLMClient.generate raises RuntimeError: not available, or the call failed
LLMErrors ==
    { Err("RuntimeError", <<"LLM is not available. Cannot generate without LM Studio. ",
                            "Please ensure LM Studio is running with model loaded.">>),
      Err("RuntimeError", <<"LLM generation failed: ", "Connection error.",
                            ". This may indicate LM Studio crashed or model unloaded.">>) }

CleanAgent ==
    [EmptyText EXCEPT !.id = "clean_agent", !.nlines = 3, !.funcs = 1, !.classes = 1,
        !.imports = <<[form |-> "import", name |-> <<"json">>, asname |-> "", lineno |-> 1]>>]
EvalAgent ==
    [EmptyText EXCEPT !.id = "eval_agent", !.nlines = 3, !.funcs = 1, !.classes = 1,
        !.calls = <<[kind |-> "name", base |-> "", attr |-> "eval", lineno |-> 3]>>]
UnclosedParen ==
    [EmptyText EXCEPT !.id = "unclosed_paren", !.nlines = 4, !.parse = "SyntaxError",
        !.lineno = 2, !.msg = "'(' was never closed"]
BadIndent ==
    [EmptyText EXCEPT !.id = "bad_indent", !.nlines = 1, !.parse = "SyntaxError",
        !.lineno = 1, !.msg = "unexpected indent"]
NullByte ==
    [EmptyText EXCEPT !.id = "null_byte", !.nlines = 1, !.parse = "SyntaxError",
        !.lineno = NoLineno, !.msg = "source code string cannot contain null bytes"]
DeepNesting ==
    [EmptyText EXCEPT !.id = "deep_nesting", !.nlines = 1, !.parse = "Exception",
        !.msg = "maximum recursion depth exceeded during ast construction"]

CodeTexts == {CleanAgent, EvalAgent, UnclosedParen, BadIndent, NullByte, DeepNesting}

\* a response of llm_client.generate: a text, or an error raised
Response(ok, text, err) == [ok |-> ok, text |-> text, err |-> err]
CodeResponses ==
    {Response(TRUE, t, NoError) : t \in CodeTexts} \cup
    {Response(FALSE, EmptyText, e) : e \in LLMErrors}

Contains(msg, fragment) == \E i \in 1..Len(msg) : msg[i] = fragment

\* msg holds the fragments of part, in order and adjacent
Embeds(msg, part) ==
    \E i \in 0..(Len(msg) - Len(part)) : SubSeq(msg, i + 1, i + Len(part)) = part

(***************************************************************************)
(* tools/generate_agent_code.py                                            *)
(***************************************************************************)
\* _check_syntax: <<>> is None
_check_syntax_AcceptsAll(text) == <<>>

_check_syntax(text) ==
    IF text.parse = "ok" THEN <<>>
    ELSE IF text.parse = "SyntaxError"
        THEN <<"Syntax error at line ", Str(text.lineno), ": ", text.msg>>
        ELSE <<"Parse error: ", text.msg>>

CODE_SYSTEM_PROMPT == <<"You are an expert Python developer specializing in agent systems. ...">>

CodeUserPrompt(yaml, additional) ==
    <<"Generate complete Python code for this agent: YAML SPECIFICATION: ", yaml,
      " Generate production-ready Python code following all requirements. The code should be complete and directly usable.">>
    \o additional

\* raise RuntimeError(f"Code generation failed: {e}. This indicates ...") from e
CodeGenerationFailed(e) ==
    Err("RuntimeError",
        <<"Code generation failed: ">> \o e.msg \o <<". This indicates an issue with LLM response.">>)

\* generate_agent_code: yaml.safe_load and spec.get first, then the LLM call
generate_agent_code(yaml, additional, resp) ==
    IF yaml = "YAMLError" THEN
        [raised |-> TRUE, called |-> FALSE, code |-> EmptyText,
         err |-> Err("ValueError", <<"Invalid YAML specification: ", "mapping values are not allowed here">>)]
    ELSE IF yaml # "dict" THEN
        [raised |-> TRUE, called |-> FALSE, code |-> EmptyText,
         err |-> Err("AttributeError", <<"'list' object has no attribute 'get'">>)]
    ELSE IF ~resp.ok THEN
        [raised |-> TRUE, called |-> TRUE, code |-> EmptyText, err |-> CodeGenerationFailed(resp.err)]
    ELSE
        [raised |-> FALSE, called |-> TRUE, code |-> resp.text, err |-> NoError]

\* debug_path = f"/tmp/generated_code_attempt_{attempt + 1}.py"
DebugPath_Unnumbered(n) == <<"/tmp/generated_code_attempt_", ToString(1), ".py">>

DebugPath(n) == <<"/tmp/generated_code_attempt_", ToString(n), ".py">>

\* 'line ' in s, for the fragments messages are made of
HasLineWord(fragment) == fragment \in {"Syntax error at line "}

\* int(s): the digits of a line number, else ValueError
IsIntLiteral(s) == \E n \in 0..9 : ToString(n) = s
IntOf(s) == CHOOSE n \in 0..9 : ToString(n) = s

\* int(syntax_error.split('line ')[1].split(':')[0]) if 'line ' in syntax_error else 0
ErrorLineText(syntax_error) ==
    IF \E i \in 1..Len(syntax_error) : HasLineWord(syntax_error[i])
        THEN syntax_error[(CHOOSE i \in 1..Len(syntax_error) :
                            /\ HasLineWord(syntax_error[i])
                            /\ \A j \in 1..(i - 1) : ~HasLineWord(syntax_error[j])) + 1]
        ELSE "0"

\* the numbered lines code_lines[context_start:context_end] of the text
CodeContext(text, error_line_num) ==
    LET context_start == Max(0, error_line_num - 3)
        context_end == Min(text.nlines, error_line_num + 2)
    IN  <<"lines of ", text.id, " from ", ToString(context_start), " to ", ToString(context_end)>>

CodeFeedback(text, syntax_error) ==
    <<"PREVIOUS ATTEMPT FAILED WITH SYNTAX ERROR: ">> \o syntax_error
    \o <<"Code context around the error: ">>
    \o CodeContext(text, IntOf(ErrorLineText(syntax_error)))
    \o <<"CRITICAL FIX REQUIRED: ... Generate COMPLETE, VALID Python code.">>

\* result["retry_count"] = attempt
RetryCount_OneBased(n) == n + 1

RetryCount(n) == n

Return(text, retry_count) == [returned |-> TRUE, code |-> text, retry_count |-> retry_count]
NoReturn == [returned |-> FALSE, code |-> EmptyText, retry_count |-> -1]

Call(n, sys, user, resp) ==
    [attempt |-> n, system_prompt |-> sys, user_prompt |-> user, response |-> resp]

\* one iteration of the for loop of generate_agent_code_with_retry
generate_agent_code_with_retry(resp) ==
    /\ loop = "code" /\ pc = "generating" /\ attempt < max_retries
    /\ LET g == generate_agent_code(yaml_specification, additional_instructions, resp)
           debug_path == DebugPath(attempt + 1)
           syntax_error == _check_syntax(g.code)
       IN
       /\ calls' = IF g.called
                     THEN Append(calls, Call(attempt, CODE_SYSTEM_PROMPT,
                                    CodeUserPrompt(yaml_specification, additional_instructions), resp))
                     ELSE calls
       /\ files' = IF g.raised THEN files ELSE [files EXCEPT ![debug_path] = g.code]
       /\ IF g.raised THEN
              IF g.err.cls = "ValueError" THEN
                  \* except ValueError: raise
                  /\ pc' = "raised" /\ error' = g.err
                  /\ UNCHANGED <<attempt, additional_instructions, result>>
              ELSE IF attempt >= max_retries - 1 THEN
                  /\ pc' = "raised"
                  /\ error' = Err("RuntimeError",
                        <<"Code generation failed after ", ToString(max_retries), " attempts: ">> \o g.err.msg)
                  /\ UNCHANGED <<attempt, additional_instructions, result>>
              ELSE
                  /\ attempt' = attempt + 1
                  /\ UNCHANGED <<pc, additional_instructions, result, error>>
          ELSE IF syntax_error = <<>> THEN
              /\ pc' = "returned"
              /\ result' = Return(g.code, RetryCount(attempt))
              /\ UNCHANGED <<attempt, additional_instructions, error>>
          ELSE IF attempt < max_retries - 1 THEN
              IF ~IsIntLiteral(ErrorLineText(syntax_error)) THEN
                  \* int() raises ValueError, which the loop re-raises
                  /\ pc' = "raised"
                  /\ error' = Err("ValueError",
                        <<"invalid literal for int() with base 10: ", ErrorLineText(syntax_error)>>)
                  /\ UNCHANGED <<attempt, additional_instructions, result>>
              ELSE
                  /\ additional_instructions' = CodeFeedback(g.code, syntax_error)
                  /\ attempt' = attempt + 1
                  /\ UNCHANGED <<pc, result, error>>
          ELSE
              /\ pc' = "raised"
              /\ error' = Err("ValueError",
                    <<"Code generation failed after ", ToString(max_retries), " attempts. ", "Last error: ">>
                    \o syntax_error \o <<". ", "Debug code at: ">> \o debug_path)
              /\ UNCHANGED <<attempt, additional_instructions, result>>
    /\ UNCHANGED <<loop, caller, yaml_specification, max_retries, system_prompt>>
    /\ UNCHANGED <<vvars, mvars>>
    /\ UNCHANGED <<evars, dvars, svars>>

\* the statement after the loop: raise RuntimeError("... Maximum retries reached")
generate_agent_code_with_retry_end ==
    /\ loop = "code" /\ pc = "generating" /\ attempt >= max_retries
    /\ pc' = "raised"
    /\ error' = Err("RuntimeError", <<"Code generation failed: Maximum retries reached">>)
    /\ UNCHANGED <<loop, caller, yaml_specification, max_retries, attempt,
                   additional_instructions, system_prompt, calls, files, result>>
    /\ UNCHANGED <<vvars, mvars>>
    /\ UNCHANGED <<evars, dvars, svars>>

(***************************************************************************)
(* simple_example_agent_factory.py: main, steps 5 to 7, for one agent.     *)
(***************************************************************************)
MAIN_MAX_RETRIES == 5

\* step 6 without its gate: a plausible slip
AllValid_Ungated(v) == TRUE

\* all_valid = all(v.valid for v in validation_results.values())
AllValid(v) == v.valid

\* step 6: validate_code on the code step 5 returned; return 1 unless valid
main_validate ==
    /\ caller = "main" /\ pc = "returned"
    /\ validation' = validate_code(result.code)
    /\ IF AllValid(validate_code(result.code))
          THEN pc' = "validated" /\ UNCHANGED exit_code
          ELSE pc' = "exited" /\ exit_code' = 1
    /\ UNCHANGED <<loop, caller, yaml_specification, max_retries, attempt,
                   additional_instructions, system_prompt, calls, files, result, error>>
    /\ UNCHANGED <<vvars, written>>
    /\ UNCHANGED <<evars, dvars, svars>>

\* step 7 and on: write_agent_files(code=data["code"]), deploy, return 0
main_write ==
    /\ caller = "main" /\ pc = "validated"
    /\ written' = Append(written, result.code)
    /\ pc' = "exited" /\ exit_code' = 0
    /\ UNCHANGED <<loop, caller, yaml_specification, max_retries, attempt,
                   additional_instructions, system_prompt, calls, files, result, error>>
    /\ UNCHANGED <<vvars, validation>>
    /\ UNCHANGED <<evars, dvars, svars>>

\* except Exception as e: return 1
main_except ==
    /\ caller = "main" /\ pc = "raised"
    /\ pc' = "exited" /\ exit_code' = 1
    /\ UNCHANGED <<loop, caller, yaml_specification, max_retries, attempt,
                   additional_instructions, system_prompt, calls, files, result, error>>
    /\ UNCHANGED <<vvars, validation, written>>
    /\ UNCHANGED <<evars, dvars, svars>>

(***************************************************************************)
(* tools/generate_agent_specification.py                                   *)
(***************************************************************************)
\* what yaml.safe_load makes of a YAML text: a dict, another value, YAMLError
YamlText(id, yaml, msg) == [id |-> id, yaml |-> yaml, msg |-> msg]
NoYaml == YamlText("", "none", "")
YamlTexts ==
    { YamlText("agent_spec", "dict", ""),
      YamlText("bullet_list", "nondict", ""),
      YamlText("unquoted_colon", "YAMLError", "mapping values are not allowed here"),
      YamlText("bad_indent", "YAMLError", "expected <block end>, but found '<block mapping start>'") }

SpecResponses ==
    {Response(TRUE, t, NoError) : t \in YamlTexts} \cup
    {Response(FALSE, NoYaml, e) : e \in LLMErrors}

\* _check_yaml_validity: <<>> is None
_check_yaml_validity(text) == IF text.yaml = "YAMLError" THEN <<text.msg>> ELSE <<>>

SPEC_SYSTEM_PROMPT == <<"You are an expert in agent system design and YAML specification. ...">>

SpecUserPrompt(additional) ==
    <<"Generate a complete YAML specification for this agent: ... Generate the complete YAML specification following the structure provided.">>
    \o additional

\* raise RuntimeError(f"Specification generation failed: {e}. This indicates ...") from e
SpecGenerationFailed(msg) ==
    Err("RuntimeError",
        <<"Specification generation failed: ">> \o msg \o <<". This indicates an issue with LLM response.">>)

\* generate_agent_specification: the LLM call, then yaml.safe_load of the answer
\* inside the try whose except Exception wraps every failure
generate_agent_specification(additional, resp) ==
    IF ~resp.ok THEN
        [raised |-> TRUE, yaml_spec |-> NoYaml, err |-> SpecGenerationFailed(resp.err.msg)]
    ELSE IF resp.text.yaml = "YAMLError" THEN
        [raised |-> TRUE, yaml_spec |-> NoYaml,
         err |-> SpecGenerationFailed(<<"Generated specification has invalid YAML syntax: ", resp.text.msg>>)]
    ELSE IF resp.text.yaml # "dict" THEN
        [raised |-> TRUE, yaml_spec |-> NoYaml,
         err |-> SpecGenerationFailed(<<"YAML must be a dictionary at root level">>)]
    ELSE
        [raised |-> FALSE, yaml_spec |-> resp.text, err |-> NoError]

SpecFeedback(yaml_error) ==
    <<"# PREVIOUS ATTEMPT GENERATED INVALID YAML: # Error: ">> \o yaml_error
    \o <<"# CRITICAL: Generate VALID YAML only. Common issues to avoid: ...">>

NoRetryCount == -1

\* one iteration of the for loop of generate_agent_specification_with_retry
generate_agent_specification_with_retry(resp) ==
    /\ loop = "spec" /\ pc = "generating" /\ attempt < max_retries
    /\ LET g == generate_agent_specification(additional_instructions, resp)
           yaml_error == _check_yaml_validity(g.yaml_spec)
       IN
       /\ calls' = Append(calls, Call(attempt, SPEC_SYSTEM_PROMPT,
                                      SpecUserPrompt(additional_instructions), resp))
       /\ IF g.raised THEN
              IF g.err.cls = "ValueError" THEN
                  /\ pc' = "raised" /\ error' = g.err
                  /\ UNCHANGED <<attempt, additional_instructions, result>>
              ELSE IF attempt >= max_retries - 1 THEN
                  /\ pc' = "raised"
                  /\ error' = Err("RuntimeError",
                        <<"Specification generation failed after ", ToString(max_retries), " attempts: ">>
                        \o g.err.msg)
                  /\ UNCHANGED <<attempt, additional_instructions, result>>
              ELSE
                  /\ attempt' = attempt + 1
                  /\ UNCHANGED <<pc, additional_instructions, result, error>>
          ELSE IF yaml_error = <<>> THEN
              /\ pc' = "returned"
              /\ result' = Return(g.yaml_spec, NoRetryCount)
              /\ UNCHANGED <<attempt, additional_instructions, error>>
          ELSE IF attempt < max_retries - 1 THEN
              /\ additional_instructions' = SpecFeedback(yaml_error)
              /\ attempt' = attempt + 1
              /\ UNCHANGED <<pc, result, error>>
          ELSE
              /\ pc' = "raised"
              /\ error' = Err("ValueError",
                    <<"Specification generation failed after ", ToString(max_retries), " attempts. ",
                      "Last error: ">> \o yaml_error)
              /\ UNCHANGED <<attempt, additional_instructions, result>>
    /\ UNCHANGED <<loop, caller, yaml_specification, max_retries, system_prompt, files>>
    /\ UNCHANGED <<vvars, mvars>>
    /\ UNCHANGED <<evars, dvars, svars>>

\* the statement after the loop
generate_agent_specification_with_retry_end ==
    /\ loop = "spec" /\ pc = "generating" /\ attempt >= max_retries
    /\ pc' = "raised"
    /\ error' = Err("RuntimeError", <<"Specification generation failed: Maximum retries reached">>)
    /\ UNCHANGED <<loop, caller, yaml_specification, max_retries, attempt,
                   additional_instructions, system_prompt, calls, files, result>>
    /\ UNCHANGED <<vvars, mvars>>
    /\ UNCHANGED <<evars, dvars, svars>>

(***************************************************************************)
(* meta_agent/generators/script_generator.py.  A response text stands for  *)
(* the text _clean_code leaves of it.                                      *)
(***************************************************************************)
SCRIPT_SYSTEM_PROMPT == <<"You are an expert Python developer. Generate production-ready, executable Python scripts. ...">>
SCRIPT_USER_PROMPT == <<"Generate a complete Python script for this task: ...">>

\* str(e) of a SyntaxError raised by ast.parse
SyntaxErrorStr(text) == <<text.msg, " (<unknown>, line ", Str(text.lineno), ")">>

\* the numbered lines lines[context_start:context_end]
ScriptContext(text) ==
    LET error_line == IF text.lineno = NoLineno \/ text.lineno = 0 THEN 1 ELSE text.lineno
        context_start == Max(0, error_line - 3)
        context_end == Min(text.nlines, error_line + 3)
    IN  <<"lines of ", text.id, " from ", ToString(context_start), " to ", ToString(context_end)>>

ScriptErrorMsg(text) == <<"Syntax error at line ", Str(text.lineno), ": ", text.msg>>

ScriptFeedback(text) ==
    <<"PREVIOUS ATTEMPT HAD SYNTAX ERROR: Error: ">> \o ScriptErrorMsg(text)
    \o <<" Context: ">> \o ScriptContext(text)
    \o <<"CRITICAL FIX REQUIRED: - Check all brackets ... are complete">>

\* system_prompt += feedback
ExtendPrompt_Replacing(prompt, feedback) == SCRIPT_SYSTEM_PROMPT \o feedback

ExtendPrompt(prompt, feedback) == prompt \o feedback

\* raise ValueError(f"Failed to generate script: {e}") from e
ScriptGenerationFailed_Unwrapped(e) == e

ScriptGenerationFailed(e) == Err("ValueError", <<"Failed to generate script: ">> \o e.msg)

\* one iteration of the for loop of generate_script
generate_script(resp) ==
    /\ loop = "script" /\ pc = "generating" /\ attempt < max_retries
    /\ calls' = Append(calls, Call(attempt, system_prompt, SCRIPT_USER_PROMPT, resp))
    /\ IF ~resp.ok THEN
           \* except Exception
           /\ pc' = "raised" /\ error' = ScriptGenerationFailed(resp.err)
           /\ UNCHANGED <<attempt, system_prompt, result>>
       ELSE IF resp.text.parse = "SyntaxError" THEN
           IF attempt < max_retries - 1 THEN
               /\ system_prompt' = ExtendPrompt(system_prompt, ScriptFeedback(resp.text))
               /\ attempt' = attempt + 1
               /\ UNCHANGED <<pc, result, error>>
           ELSE
               \* raise, then except SyntaxError with attempt >= max_retries - 1
               /\ pc' = "raised"
               /\ error' = Err("ValueError",
                     <<"Failed to generate valid script after ", ToString(max_retries), " attempts: ">>
                     \o SyntaxErrorStr(resp.text))
               /\ UNCHANGED <<attempt, system_prompt, result>>
       ELSE IF resp.text.parse # "ok" THEN
           \* ast.parse raised something else: except Exception
           /\ pc' = "raised"
           /\ error' = ScriptGenerationFailed(Err("Exception", <<resp.text.msg>>))
           /\ UNCHANGED <<attempt, system_prompt, result>>
       ELSE
           /\ pc' = "returned"
           /\ result' = Return(resp.text, NoRetryCount)
           /\ UNCHANGED <<attempt, system_prompt, error>>
    /\ UNCHANGED <<loop, caller, yaml_specification, max_retries, additional_instructions, files>>
    /\ UNCHANGED <<vvars, mvars>>
    /\ UNCHANGED <<evars, dvars, svars>>

\* the loop ends without a return statement: the function returns None
generate_script_end ==
    /\ loop = "script" /\ pc = "generating" /\ attempt >= max_retries
    /\ pc' = "returned"
    /\ result' = NoReturn
    /\ UNCHANGED <<loop, caller, yaml_specification, max_retries, attempt,
                   additional_instructions, system_prompt, calls, files, error>>
    /\ UNCHANGED <<vvars, mvars>>
    /\ UNCHANGED <<evars, dvars, svars>>

(***************************************************************************)
(* tools/validate_agent_specification.py                                   *)
(* A document is what yaml.safe_load makes of spec_content: root is "dict" *)
(* (fields maps its keys to values), "other" (a list, a scalar, None) or   *)
(* "YAMLError".  A value has a type ("str", "int", "float", "null",        *)
(* "list", "dict"); s is its text when a scalar, items its elements when a *)
(* list, map its entries when a dict.                                      *)
(***************************************************************************)
NoEntries == [k \in {} |-> ""]

Val(type, s, items, map) == [type |-> type, s |-> s, items |-> items, map |-> map]
YStr(s) == Val("str", s, <<>>, NoEntries)
YInt(s) == Val("int", s, <<>>, NoEntries)
YFloat(s) == Val("float", s, <<>>, NoEntries)
YNull == Val("null", "", <<>>, NoEntries)
YList(items) == Val("list", "", items, NoEntries)
YDict(map) == Val("dict", "", <<>>, map)

\* bool(value)
Truthy(v) ==
    CASE v.type = "str" -> v.s # ""
      [] v.type = "int" -> v.s # "0"
      [] v.type = "float" -> v.s # "0.0"
      [] v.type = "list" -> v.items # <<>>
      [] v.type = "dict" -> DOMAIN v.map # {}
      [] OTHER -> FALSE

\* type(value).__name__
PyTypeName(v) == IF v.type = "null" THEN "NoneType" ELSE v.type

\* what an f-string shows of a value
Text(v) ==
    CASE v.type \in {"str", "int", "float"} -> v.s
      [] v.type = "null" -> "None"
      [] v.type = "list" -> "[...]"
      [] OTHER -> "{...}"

REQUIRED_FIELDS ==
    <<"agent_name", "agent_type", "version", "description", "role",
      "capabilities", "workflow", "dependencies">>

\* the expected type, or tuple of types, of a required field
ExpectedType(field) ==
    CASE field \in {"agent_name", "agent_type", "version", "description", "role"} -> {"str"}
      [] field = "capabilities" -> {"list", "dict"}
      [] OTHER -> {"dict"}

OPTIONAL_FIELDS == <<"data_sources", "tools", "performance", "logging", "testing">>

VALID_AGENT_TYPES ==
    {"data_retrieval", "calculation", "validation", "orchestration", "monitoring",
     "transformation"}

VALID_ROLES == {"primary_agent", "secondary_agent", "support_agent", "orchestrator"}

SpecIssue(sev, field, message, suggestion) ==
    [severity |-> sev, field |-> field, message |-> message, suggestion |-> suggestion]

\* completeness_score is a float; the model keeps it as an exact quotient
Quotient(num, den) == [num |-> num, den |-> den]

SpecValidationResult(is_valid, issues, warnings, errors, completeness_score) ==
    [is_valid |-> is_valid, issues |-> issues, warnings |-> warnings, errors |-> errors,
     completeness_score |-> completeness_score]

CountIssues(issues, sev) == Cardinality({i \in 1..Len(issues) : issues[i].severity = sev})

\* field in spec
Has(spec, field) == field \in DOMAIN spec.fields

_validate_required_fields(spec) ==
    Concat([i \in 1..Len(REQUIRED_FIELDS) |->
        IF ~Has(spec, REQUIRED_FIELDS[i])
            THEN <<SpecIssue("error", <<REQUIRED_FIELDS[i]>>,
                        <<"Required field '", REQUIRED_FIELDS[i], "' is missing">>,
                        <<"Add '", REQUIRED_FIELDS[i], "' to the specification">>)>>
            ELSE <<>>])

_validate_field_types(spec) ==
    Concat([i \in 1..Len(REQUIRED_FIELDS) |->
        LET field == REQUIRED_FIELDS[i] IN
        IF Has(spec, field) /\ spec.fields[field].type \notin ExpectedType(field)
            THEN IF Cardinality(ExpectedType(field)) > 1
                    THEN <<SpecIssue("error", <<field>>,
                              <<"Field '", field, "' must be one of types ",
                                "(<class 'list'>, <class 'dict'>)">>,
                              <<"Change '", field, "' to a valid type">>)>>
                    ELSE <<SpecIssue("error", <<field>>,
                              <<"Field '", field, "' must be of type ",
                                CHOOSE t \in ExpectedType(field) : TRUE>>,
                              <<"Change '", field, "' to ",
                                CHOOSE t \in ExpectedType(field) : TRUE>>)>>
            ELSE <<>>])

\* value not in a list of strings
NotIn(v, vocabulary) == ~(v.type = "str" /\ v.s \in vocabulary)

\* a plausible slip: a value outside the vocabulary is an error
_validate_agent_type_AsError(spec) ==
    IF Has(spec, "agent_type") /\ NotIn(spec.fields["agent_type"], VALID_AGENT_TYPES)
        THEN <<SpecIssue("error", <<"agent_type">>,
                  <<"Agent type '", Text(spec.fields["agent_type"]), "' is not in standard types">>,
                  <<"Consider using one of: ", "data_retrieval, calculation, validation, orchestration, monitoring, transformation">>)>>
        ELSE <<>>

_validate_agent_type(spec) ==
    IF Has(spec, "agent_type") /\ NotIn(spec.fields["agent_type"], VALID_AGENT_TYPES)
        THEN <<SpecIssue("warning", <<"agent_type">>,
                  <<"Agent type '", Text(spec.fields["agent_type"]), "' is not in standard types">>,
                  <<"Consider using one of: ", "data_retrieval, calculation, validation, orchestration, monitoring, transformation">>)>>
        ELSE <<>>

_validate_role(spec) ==
    IF Has(spec, "role") /\ NotIn(spec.fields["role"], VALID_ROLES)
        THEN <<SpecIssue("warning", <<"role">>,
                  <<"Role '", Text(spec.fields["role"]), "' is not in standard roles">>,
                  <<"Consider using one of: ", "primary_agent, secondary_agent, support_agent, orchestrator">>)>>
        ELSE <<>>

\* version.split("."), over the version texts the model uses
SplitDots(s) ==
    CASE s = "1.0.0" -> <<"1", "0", "0">>
      [] s = "1.0" -> <<"1", "0">>
      [] s = "1.x.0" -> <<"1", "x", "0">>
      [] OTHER -> <<s>>

\* part.isdigit(), over the parts SplitDots yields
IsDigit(part) == part \in {"0", "1"}

\* version.split raises AttributeError unless version is a str
VersionRaises(spec) == Has(spec, "version") /\ spec.fields["version"].type # "str"

_validate_version(spec) ==
    IF Has(spec, "version") THEN
        LET parts == SplitDots(spec.fields["version"].s) IN
        IF Len(parts) # 3
            THEN <<SpecIssue("warning", <<"version">>,
                      <<"Version should follow semantic versioning (MAJOR.MINOR.PATCH)">>,
                      <<"Use format like '1.0.0'">>)>>
        ELSE IF \E i \in 1..Len(parts) : ~IsDigit(parts[i])
            THEN <<SpecIssue("warning", <<"version">>, <<"Version parts should be numeric">>,
                      <<"Use format like '1.0.0'">>)>>
        ELSE <<>>
    ELSE <<>>

_validate_capabilities(spec) ==
    IF Has(spec, "capabilities") /\ spec.fields["capabilities"].type = "list" THEN
        LET capabilities == spec.fields["capabilities"].items IN
        (IF Len(capabilities) = 0
            THEN <<SpecIssue("warning", <<"capabilities">>, <<"Capabilities list is empty">>,
                      <<"Define at least one capability">>)>>
            ELSE <<>>)
        \o
        Concat([i \in 1..Len(capabilities) |->
            IF capabilities[i].type = "dict" THEN
                IF "name" \notin DOMAIN capabilities[i].map
                    THEN <<SpecIssue("error", <<"capabilities[", ToString(i - 1), "]">>,
                              <<"Capability missing 'name' field">>,
                              <<"Add 'name' field to capability">>)>>
                    ELSE <<>>
            ELSE IF capabilities[i].type # "str"
                THEN <<SpecIssue("error", <<"capabilities[", ToString(i - 1), "]">>,
                          <<"Capability must be a string or dictionary">>,
                          <<"Define capability as string or object with 'name'">>)>>
            ELSE <<>>])
    ELSE <<>>

_validate_workflow(spec) ==
    IF Has(spec, "workflow") THEN
        LET workflow == spec.fields["workflow"] IN
        IF workflow.type # "dict"
            THEN <<SpecIssue("error", <<"workflow">>, <<"Workflow must be a dictionary">>,
                      <<"Define workflow with 'steps' key">>)>>
        ELSE IF "steps" \in DOMAIN workflow.map THEN
            IF workflow.map["steps"].type # "dict"
                THEN <<SpecIssue("error", <<"workflow.steps">>,
                          <<"Workflow steps must be a dictionary">>,
                          <<"Define steps as key-value pairs">>)>>
            ELSE IF DOMAIN workflow.map["steps"].map = {}
                THEN <<SpecIssue("warning", <<"workflow.steps">>,
                          <<"Workflow has no steps defined">>,
                          <<"Define at least one workflow step">>)>>
            ELSE <<>>
        ELSE <<SpecIssue("warning", <<"workflow">>, <<"Workflow missing 'steps' section">>,
                  <<"Add 'steps' to define workflow logic">>)>>
    ELSE <<>>

_validate_dependencies(spec) ==
    IF Has(spec, "dependencies") THEN
        LET deps == spec.fields["dependencies"] IN
        IF deps.type # "dict"
            THEN <<SpecIssue("error", <<"dependencies">>, <<"Dependencies must be a dictionary">>,
                      <<"Define dependencies with keys like 'python_packages', 'internal_agents', etc.">>)>>
        ELSE IF ~\E k \in DOMAIN deps.map : Truthy(deps.map[k])
            THEN <<SpecIssue("info", <<"dependencies">>, <<"No dependencies defined">>, <<>>)>>
        ELSE <<>>
    ELSE <<>>

\* called only when "testing" in spec
_validate_testing(spec) ==
    LET testing == spec.fields["testing"] IN
    IF testing.type # "dict"
        THEN <<SpecIssue("error", <<"testing">>, <<"Testing section must be a dictionary">>,
                  <<"Define testing with 'test_scenarios'">>)>>
    ELSE IF "test_scenarios" \in DOMAIN testing.map THEN
        IF testing.map["test_scenarios"].type # "list"
            THEN <<SpecIssue("error", <<"testing.test_scenarios">>,
                      <<"Test scenarios must be a list">>,
                      <<"Define test scenarios as a list of test cases">>)>>
        ELSE IF Len(testing.map["test_scenarios"].items) = 0
            THEN <<SpecIssue("warning", <<"testing.test_scenarios">>,
                      <<"No test scenarios defined">>,
                      <<"Add at least one test scenario">>)>>
        ELSE <<>>
    ELSE <<SpecIssue("info", <<"testing">>, <<"No test scenarios defined">>,
              <<"Consider adding 'test_scenarios' for automated testing">>)>>

_check_optional_fields(spec) ==
    (IF ~Has(spec, "performance")
        THEN <<SpecIssue("info", <<"performance">>, <<"Performance settings not defined">>,
                  <<"Consider adding timeout, caching, etc.">>)>>
        ELSE <<>>)
    \o
    (IF ~Has(spec, "logging")
        THEN <<SpecIssue("info", <<"logging">>, <<"Logging configuration not defined">>,
                  <<"Consider adding log level and options">>)>>
        ELSE <<>>)

\* present_fields: the tracked fields that are in spec and truthy
PresentFields(spec) ==
    Cardinality({i \in 1..Len(REQUIRED_FIELDS) :
                    Has(spec, REQUIRED_FIELDS[i]) /\ Truthy(spec.fields[REQUIRED_FIELDS[i]])})
    + Cardinality({i \in 1..Len(OPTIONAL_FIELDS) :
                    Has(spec, OPTIONAL_FIELDS[i]) /\ Truthy(spec.fields[OPTIONAL_FIELDS[i]])})

PERCENT == 100

\* a plausible slip: the quotient is not scaled
_calculate_completeness_Unscaled(spec) ==
    Quotient(PresentFields(spec), Len(REQUIRED_FIELDS) + Len(OPTIONAL_FIELDS))

\* (present_fields / total_fields) * 100
_calculate_completeness(spec) ==
    Quotient(PresentFields(spec) * PERCENT, Len(REQUIRED_FIELDS) + Len(OPTIONAL_FIELDS))

HALF_SCORE == 50

_create_result(issues, is_valid) ==
    SpecValidationResult(is_valid, issues, CountIssues(issues, "warning"),
        CountIssues(issues, "error"),
        IF ~is_valid THEN Quotient(0, 1) ELSE Quotient(HALF_SCORE, 1))

\* what a call of validate_specification ends with
SpecReturned(res) == [raised |-> FALSE, result |-> res, error |-> NoError]
SpecRaised(err) == [raised |-> TRUE, result |-> _create_result(<<>>, FALSE), error |-> err]
NoOutcome == [raised |-> FALSE, result |-> _create_result(<<>>, FALSE), error |-> NoError]

validate_specification(spec, strict) ==
    IF spec.root = "YAMLError" THEN
        SpecReturned(_create_result(
            <<SpecIssue("error", <<"yaml_syntax">>, <<"YAML parsing error: ", spec.msg>>,
                        <<"Check YAML syntax and indentation">>)>>, FALSE))
    ELSE IF spec.root # "dict" THEN
        SpecReturned(_create_result(
            <<SpecIssue("error", <<"root">>, <<"Specification must be a YAML dictionary">>,
                        <<"Ensure the YAML starts with key-value pairs">>)>>, FALSE))
    ELSE IF VersionRaises(spec) THEN
        SpecRaised(Err("AttributeError",
            <<"'", PyTypeName(spec.fields["version"]), "' object has no attribute 'split'">>))
    ELSE
        LET issues ==
                _validate_required_fields(spec) \o _validate_field_types(spec)
                \o _validate_agent_type(spec) \o _validate_role(spec)
                \o _validate_version(spec) \o _validate_capabilities(spec)
                \o _validate_workflow(spec) \o _validate_dependencies(spec)
                \o (IF Has(spec, "testing") THEN _validate_testing(spec) ELSE <<>>)
                \o (IF ~strict THEN _check_optional_fields(spec) ELSE <<>>)
        IN  SpecReturned(SpecValidationResult(CountIssues(issues, "error") = 0, issues,
                CountIssues(issues, "warning"), CountIssues(issues, "error"),
                _calculate_completeness(spec)))

\* no specification run
EmptyDocument == [root |-> "dict", msg |-> "", fields |-> NoEntries]

IdleDocument ==
    /\ document = EmptyDocument
    /\ edits = {}
    /\ strict_mode = TRUE
    /\ spec_outcome = NoOutcome
    /\ dpc = "idle"

(***************************************************************************)
(* meta_agent/validators/script_validator.py                               *)
(* validate_script reads script_code through ast.parse, regular            *)
(* expressions and substring tests.  A script is what they find in it:     *)
(* parse, lineno, msg as for a text; creds, the matches of the credential  *)
(* patterns in text order, each with env_near (os.getenv or os.environ     *)
(* within 50 characters of it); words, the substrings and call patterns    *)
(* tested for that occur in it.  The scores are in hundredths.             *)
(***************************************************************************)
ScriptIssue(sev, category, message, line) ==
    [severity |-> sev, category |-> category, message |-> message, line_number |-> line]

ScriptValidationResult(is_valid, issues, syntax_valid, security_score, memory_mb, cpu_cores) ==
    [is_valid |-> is_valid, issues |-> issues, syntax_valid |-> syntax_valid,
     security_score |-> security_score, estimated_memory_mb |-> memory_mb,
     estimated_cpu_cores |-> cpu_cores]

\* the issues _validate_syntax appends; syntax_valid is their absence
_validate_syntax(s) ==
    IF s.parse = "ok" THEN <<>>
    ELSE IF s.parse = "SyntaxError"
        THEN <<ScriptIssue("error", "syntax", <<"Syntax error: ", s.msg>>, s.lineno)>>
        ELSE <<ScriptIssue("error", "syntax", <<"Parse error: ", s.msg>>, NoLineno)>>

credential_patterns ==
    <<"Potential hardcoded password", "Potential hardcoded API key",
      "Potential hardcoded secret", "Potential hardcoded token">>

dangerous_patterns ==
    << [pattern |-> "eval", message |-> "Use of eval() is dangerous"],
       [pattern |-> "exec", message |-> "Use of exec() is dangerous"],
       [pattern |-> "__import__", message |-> "Dynamic imports can be dangerous"] >>

SCORE_FULL == 100
PENALTY_CREDENTIAL == 20
PENALTY_NO_ENV == 10
PENALTY_DANGEROUS == 15

\* issues and score of _validate_security.  A match near os.getenv /
\* os.environ is skipped (a match never ends in an empty string: the
\* patterns ask for one character between the quotes).
_validate_security(s, strict) ==
    LET reported(p) == {i \in 1..Len(s.creds) :
                           s.creds[i].message = credential_patterns[p] /\ ~s.creds[i].env_near}
        env == {"os.getenv", "os.environ.get"} \cap s.words # {}
        found == {p \in 1..Len(dangerous_patterns) : dangerous_patterns[p].pattern \in s.words}
    IN  [issues |->
            Concat([p \in 1..Len(credential_patterns) |->
                Concat([i \in 1..Len(s.creds) |->
                    IF i \in reported(p)
                        THEN <<ScriptIssue(IF strict THEN "error" ELSE "warning", "security",
                                           <<credential_patterns[p]>>, NoLineno)>>
                        ELSE <<>>])])
            \o (IF env THEN <<>>
                ELSE <<ScriptIssue("warning", "security",
                                   <<"No environment variable usage detected">>, NoLineno)>>)
            \o Concat([p \in 1..Len(dangerous_patterns) |->
                IF p \in found
                    THEN <<ScriptIssue("warning", "security",
                                       <<dangerous_patterns[p].message>>, NoLineno)>>
                    ELSE <<>>]),
         score |->
            Max(0, SCORE_FULL
                   - PENALTY_CREDENTIAL * Cardinality({i \in 1..Len(s.creds) : ~s.creds[i].env_near})
                   - (IF env THEN 0 ELSE PENALTY_NO_ENV)
                   - PENALTY_DANGEROUS * Cardinality(found))]

\* memory_mb and cpu_cores (in tenths of a core)
_estimate_resources(s) ==
    [memory_mb |-> 128 + (IF "pandas" \in s.words THEN 256 ELSE 0)
                       + (IF "numpy" \in s.words THEN 128 ELSE 0)
                       + (IF {"torch", "tensorflow"} \cap s.words # {} THEN 1024 ELSE 0)
                       + (IF {"flask", "fastapi"} \cap s.words # {} THEN 128 ELSE 0),
     cpu_cores |-> IF {"multiprocessing", "concurrent"} \cap s.words # {} THEN 10 ELSE 5]

_validate_best_practices(s) ==
    (IF {"logger", "logging"} \cap s.words = {}
        THEN <<ScriptIssue("warning", "style",
                  <<"No logging detected - consider adding logging">>, NoLineno)>>
        ELSE <<>>)
    \o (IF "try:" \notin s.words
        THEN <<ScriptIssue("info", "style",
                  <<"No error handling detected - consider adding try/except blocks">>, NoLineno)>>
        ELSE <<>>)
    \o (IF "->" \notin s.words
        THEN <<ScriptIssue("info", "style",
                  <<"No type hints detected - consider adding type annotations">>, NoLineno)>>
        ELSE <<>>)
    \o (IF "docstring" \notin s.words
        THEN <<ScriptIssue("info", "style",
                  <<"No docstrings detected - consider adding documentation">>, NoLineno)>>
        ELSE <<>>)

SECURITY_THRESHOLD == 80

\* a plausible slip: the security score does not take part
IsValidScript_ErrorsOnly(syntax_valid, error_count, security_score) ==
    syntax_valid /\ error_count = 0

\* is_valid = syntax_valid and error_count == 0 and security_score >= 0.8
IsValidScript(syntax_valid, error_count, security_score) ==
    syntax_valid /\ error_count = 0 /\ security_score >= SECURITY_THRESHOLD

validate_script(s, strict) ==
    LET security == _validate_security(s, strict)
        issues == _validate_syntax(s) \o security.issues \o _validate_best_practices(s)
        syntax_valid == _validate_syntax(s) = <<>>
    IN  ScriptValidationResult(
            IsValidScript(syntax_valid, CountIssues(issues, "error"), security.score),
            issues, syntax_valid, security.score,
            _estimate_resources(s).memory_mb, _estimate_resources(s).cpu_cores)

\* a script in which the scans find nothing
PlainScript ==
    [id |-> "", parse |-> "ok", lineno |-> NoLineno, msg |-> "", creds |-> <<>>, words |-> {}]

\* what the scans find in a text of the retry loops
Scan(text) ==
    [id |-> text.id, parse |-> text.parse, lineno |-> text.lineno, msg |-> text.msg,
     creds |-> <<>>,
     words |-> ({text.calls[i].attr : i \in 1..Len(text.calls)}
                    \cap {dangerous_patterns[p].pattern : p \in 1..Len(dangerous_patterns)})
               \cup {"os.getenv" : i \in {j \in 1..Len(text.calls) :
                                    text.calls[j].base = "os" /\ text.calls[j].attr = "getenv"}}]

IdleScript ==
    /\ script = PlainScript
    /\ script_validation = ScriptValidationResult(FALSE, <<>>, FALSE, 0, 0, 0)
    /\ executed = <<>>
    /\ spc = "idle"

(***************************************************************************)
(* script_executor.py: main, steps 4 to 6.                                 *)
(***************************************************************************)
SCRIPT_MAX_RETRIES == 3

\* the gate of step 5 left out: a plausible slip
ScriptGate_Open(v) == TRUE

\* if not validation.is_valid: return 1
ScriptGate(v) == v.is_valid

\* step 5: validate_script(generated['script'], strict_mode=True)
script_executor_validate ==
    /\ caller = "executor" /\ pc = "returned"
    /\ script' = Scan(result.code)
    /\ script_validation' = validate_script(Scan(result.code), TRUE)
    /\ IF ScriptGate(validate_script(Scan(result.code), TRUE))
          THEN pc' = "validated" /\ UNCHANGED exit_code
          ELSE pc' = "exited" /\ exit_code' = 1
    /\ UNCHANGED <<loop, caller, yaml_specification, max_retries, attempt,
                   additional_instructions, system_prompt, calls, files, result, error>>
    /\ UNCHANGED <<vvars, validation, written, executed, spc>>
    /\ UNCHANGED <<evars, dvars>>

\* step 6: execute_script_in_container(script_code=generated['script'], ...);
\* return 0 on status 'success', else 1 (also when the call raises)
script_executor_execute(status) ==
    /\ caller = "executor" /\ pc = "validated"
    /\ executed' = Append(executed, result.code)
    /\ pc' = "exited"
    /\ exit_code' = IF status = "success" THEN 0 ELSE 1
    /\ UNCHANGED <<loop, caller, yaml_specification, max_retries, attempt,
                   additional_instructions, system_prompt, calls, files, result, error>>
    /\ UNCHANGED <<vvars, validation, written, script, script_validation, spc>>
    /\ UNCHANGED <<evars, dvars>>

\* except Exception as e: return 1
script_executor_except ==
    /\ caller = "executor" /\ pc = "raised"
    /\ pc' = "exited" /\ exit_code' = 1
    /\ UNCHANGED <<loop, caller, yaml_specification, max_retries, attempt,
                   additional_instructions, system_prompt, calls, files, result, error>>
    /\ UNCHANGED <<vvars, validation, written>>
    /\ UNCHANGED <<evars, dvars, svars>>

(***************************************************************************)
(* A run: one call of a retry function, directly or from main.             *)
(***************************************************************************)
StaleText == [EmptyText EXCEPT !.id = "left by an earlier run"]

\* the files earlier runs may have left under /tmp
DebugPaths ==
    { <<"/tmp/generated_code_attempt_", ToString(n), ".py">> :
          n \in 1..Max(MaxRetries, MAIN_MAX_RETRIES) }

\* the locals of one invocation of generate_agent_code_with_retry
Locals(id, max, att, at, additional, made, res, err) ==
    [id |-> id, max_retries |-> max, attempt |-> att, pc |-> at,
     additional_instructions |-> additional, calls |-> made, result |-> res, error |-> err]

\* no second invocation
NoPeer == Locals(0, 0, 0, "idle", <<>>, <<>>, NoReturn, NoError)

IdleValidator ==
    /\ code = EmptyText
    /\ syntax_result = NoResult
    /\ security_result = NoResult
    /\ combined_result = NoResult
    /\ vpc = "idle"

Init ==
    /\ IdleValidator
    /\ \/ /\ caller = "direct"
          /\ loop \in {"code", "spec", "script"}
          /\ max_retries \in 0..MaxRetries
          /\ yaml_specification \in IF loop = "code" THEN {"dict", "nondict", "YAMLError"} ELSE {"dict"}
       \/ /\ caller = "main"
          /\ loop = "code"
          /\ max_retries = MAIN_MAX_RETRIES
          /\ yaml_specification = "dict"
       \/ /\ caller = "executor"
          /\ loop = "script"
          /\ max_retries = SCRIPT_MAX_RETRIES
          /\ yaml_specification = "dict"
    /\ attempt = 0
    /\ pc = "generating"
    /\ additional_instructions = <<>>
    /\ system_prompt = SCRIPT_SYSTEM_PROMPT
    /\ calls = <<>>
    /\ files = [p \in DebugPaths |-> StaleText]
    /\ result = NoReturn
    /\ error = NoError
    /\ validation = NoResult
    /\ written = <<>>
    /\ exit_code = -1
    /\ peer = NoPeer
    /\ cancel_requested = FALSE
    /\ IdleDocument
    /\ IdleScript

\* the caller asks for cancellation while the function runs; none of the
\* retry functions takes or reads such a signal
request_cancellation ==
    /\ pc = "generating" /\ ~cancel_requested
    /\ cancel_requested' = TRUE
    /\ UNCHANGED <<vvars, rvars, mvars, peer>>
    /\ UNCHANGED <<dvars, svars>>

Next ==
    \/ \E resp \in CodeResponses : generate_agent_code_with_retry(resp)
    \/ generate_agent_code_with_retry_end
    \/ \E resp \in SpecResponses : generate_agent_specification_with_retry(resp)
    \/ generate_agent_specification_with_retry_end
    \/ \E resp \in CodeResponses : generate_script(resp)
    \/ generate_script_end
    \/ main_validate
    \/ main_write
    \/ main_except
    \/ script_executor_validate
    \/ \E status \in {"success", "error"} : script_executor_execute(status)
    \/ script_executor_except
    \/ request_cancellation

IdleRetry ==
    /\ loop = "none" /\ caller = "direct" /\ yaml_specification = "dict"
    /\ max_retries = 0 /\ attempt = 0 /\ pc = "idle"
    /\ additional_instructions = <<>> /\ system_prompt = <<>>
    /\ calls = <<>> /\ files = [p \in DebugPaths |-> StaleText]
    /\ result = NoReturn /\ error = NoError
    /\ validation = NoResult /\ written = <<>> /\ exit_code = -1
    /\ peer = NoPeer /\ cancel_requested = FALSE

(***************************************************************************)
(* Two invocations of generate_agent_code_with_retry in one process (one   *)
(* per agent of an architecture), interleaved between loop iterations.     *)
(* The locals of the invocation that is not running are kept in peer; the  *)
(* files under /tmp are the same for both.                                 *)
(***************************************************************************)
InitConcurrent ==
    /\ IdleValidator
    /\ caller = "direct" /\ loop = "code" /\ yaml_specification = "dict"
    /\ max_retries \in 0..MaxConcurrentRetries
    /\ attempt = 0
    /\ pc = "generating"
    /\ additional_instructions = <<>>
    /\ system_prompt = SCRIPT_SYSTEM_PROMPT
    /\ calls = <<>>
    /\ files = [p \in DebugPaths |-> StaleText]
    /\ result = NoReturn
    /\ error = NoError
    /\ validation = NoResult /\ written = <<>> /\ exit_code = -1
    /\ \E m \in 0..MaxConcurrentRetries :
          peer = Locals(2, m, 0, "generating", <<>>, <<>>, NoReturn, NoError)
    /\ cancel_requested = FALSE
    /\ IdleDocument
    /\ IdleScript

\* the scheduler runs the other invocation, if it can still run
switch ==
    /\ peer.id # 0 /\ peer.pc = "generating"
    /\ peer' = Locals(3 - peer.id, max_retries, attempt, pc,
                      additional_instructions, calls, result, error)
    /\ max_retries' = peer.max_retries
    /\ attempt' = peer.attempt
    /\ pc' = peer.pc
    /\ additional_instructions' = peer.additional_instructions
    /\ calls' = peer.calls
    /\ result' = peer.result
    /\ error' = peer.error
    /\ UNCHANGED <<loop, caller, yaml_specification, system_prompt, files>>
    /\ UNCHANGED <<vvars, mvars, cancel_requested>>
    /\ UNCHANGED <<dvars, svars>>

NextConcurrent ==
    \/ \E resp \in CodeResponses : generate_agent_code_with_retry(resp)
    \/ generate_agent_code_with_retry_end
    \/ switch

(***************************************************************************)
(* Validator runs: a text is written statement by statement (imports,      *)
(* then calls, then credential lines, each kind in the order of its table  *)
(* below), then validated.                                                 *)
(***************************************************************************)
ImportKinds ==
    << [form |-> "import", name |-> <<"numpy">>, asname |-> "", src |-> <<"import numpy">>],
       [form |-> "from",   name |-> <<"numpy", "linalg">>, asname |-> "",
            src |-> <<"from numpy.linalg import norm">>],
       [form |-> "import", name |-> <<"os", "path">>, asname |-> "", src |-> <<"import os.path">>],
       [form |-> "import", name |-> <<"os">>, asname |-> "o", src |-> <<"import os as o">>],
       [form |-> "import", name |-> <<"pickle">>, asname |-> "", src |-> <<"import pickle">>],
       [form |-> "from",   name |-> <<"urllib", "request">>, asname |-> "",
            src |-> <<"from urllib.request import urlopen">>] >>

CallKinds ==
    << [kind |-> "name", base |-> "", attr |-> "eval", src |-> <<"eval(expr)">>],
       [kind |-> "attr", base |-> "f", attr |-> "open", src |-> <<"f.open()">>],
       [kind |-> "attr", base |-> "os", attr |-> "system", src |-> <<"os.system(cmd)">>],
       [kind |-> "attr", base |-> "o", attr |-> "system", src |-> <<"o.system(cmd)">>],
       [kind |-> "attr", base |-> "os", attr |-> "getenv",
            src |-> <<"db_password = ", "os.getenv(", "'DB_PASSWORD', '')">>] >>

\* assignments of a quoted literal to a credential name; the rest of the
\* line is a comment
CredKinds ==
    << [src |-> <<"password = 'admin123'">>],
       [src |-> <<"password = 'abc'", "  # was ", "os.getenv(", "'DB_PASSWORD')">>],
       [src |-> <<"password = 'abc'", "  # see ", "os.environ">>] >>

FuncCounts == {1, MAX_FUNCTION_COUNT, MAX_FUNCTION_COUNT + 1}

ParseFailures ==
    { [parse |-> "SyntaxError", lineno |-> 1, msg |-> "invalid syntax"],
      [parse |-> "SyntaxError", lineno |-> NoLineno, msg |-> "source code string cannot contain null bytes"],
      [parse |-> "Exception", lineno |-> NoLineno, msg |-> "maximum recursion depth exceeded during ast construction"] }

NumStmts(text) == Len(text.imports) + Len(text.calls) + Len(text.creds)

\* position of the last statement of a kind in its table (0: none yet)
LastKind(stmts, kinds, fields) ==
    IF stmts = <<>> THEN 0
    ELSE CHOOSE k \in 1..Len(kinds) :
            \A f \in fields : kinds[k][f] = stmts[Len(stmts)][f]

\* the text with one more line
AppendLine(raw, src) == IF raw = <<>> THEN src ELSE raw \o <<"\n">> \o src

InitValidate ==
    /\ code = EmptyText
    /\ syntax_result = NoResult
    /\ security_result = NoResult
    /\ combined_result = NoResult
    /\ vpc = "building"
    /\ IdleRetry
    /\ IdleDocument
    /\ IdleScript

AddImport(k) ==
    /\ vpc = "building" /\ code.parse = "ok"
    /\ NumStmts(code) < MaxStmts
    /\ code.calls = <<>> /\ code.creds = <<>>
    /\ k >= LastKind(code.imports, ImportKinds, {"form", "name", "asname"})
    /\ code' = [code EXCEPT !.imports = Append(@,
                    [form |-> ImportKinds[k].form, name |-> ImportKinds[k].name,
                     asname |-> ImportKinds[k].asname, lineno |-> NumStmts(code) + 1]),
                    !.raw = AppendLine(@, ImportKinds[k].src),
                    !.nlines = @ + 1]
    /\ UNCHANGED <<syntax_result, security_result, combined_result, vpc>>
    /\ UNCHANGED <<rvars, mvars>>
    /\ UNCHANGED <<evars, dvars, svars>>

AddCall(k) ==
    /\ vpc = "building" /\ code.parse = "ok"
    /\ NumStmts(code) < MaxStmts
    /\ code.creds = <<>>
    /\ k >= LastKind(code.calls, CallKinds, {"kind", "base", "attr"})
    /\ code' = [code EXCEPT !.calls = Append(@,
                    [kind |-> CallKinds[k].kind, base |-> CallKinds[k].base,
                     attr |-> CallKinds[k].attr, lineno |-> NumStmts(code) + 1]),
                    !.raw = AppendLine(@, CallKinds[k].src),
                    !.nlines = @ + 1]
    /\ UNCHANGED <<syntax_result, security_result, combined_result, vpc>>
    /\ UNCHANGED <<rvars, mvars>>
    /\ UNCHANGED <<evars, dvars, svars>>

AddCred(k) ==
    /\ vpc = "building" /\ code.parse = "ok"
    /\ NumStmts(code) < MaxStmts
    /\ k >= LastKind(code.creds, CredKinds, {"src"})
    /\ code' = [code EXCEPT !.creds = Append(@,
                    [src |-> CredKinds[k].src, lineno |-> NumStmts(code) + 1]),
                    !.raw = AppendLine(@, CredKinds[k].src),
                    !.nlines = @ + 1]
    /\ UNCHANGED <<syntax_result, security_result, combined_result, vpc>>
    /\ UNCHANGED <<rvars, mvars>>
    /\ UNCHANGED <<evars, dvars, svars>>

\* the class statement is tried with at most one function beside it
AddFunctions(n) ==
    /\ vpc = "building" /\ code.parse = "ok"
    /\ code.funcs = 0
    /\ code.classes = 0 \/ n <= 1
    /\ code' = [code EXCEPT !.funcs = n]
    /\ UNCHANGED <<syntax_result, security_result, combined_result, vpc>>
    /\ UNCHANGED <<rvars, mvars>>
    /\ UNCHANGED <<evars, dvars, svars>>

AddClass ==
    /\ vpc = "building" /\ code.parse = "ok"
    /\ code.classes = 0 /\ code.funcs <= 1
    /\ code' = [code EXCEPT !.classes = 1]
    /\ UNCHANGED <<syntax_result, security_result, combined_result, vpc>>
    /\ UNCHANGED <<rvars, mvars>>
    /\ UNCHANGED <<evars, dvars, svars>>

\* a text that does not parse has no nodes
BreakSyntax(f) ==
    /\ vpc = "building" /\ code = EmptyText
    /\ code' = [code EXCEPT !.parse = f.parse, !.lineno = f.lineno, !.msg = f.msg, !.nlines = 1]
    /\ UNCHANGED <<syntax_result, security_result, combined_result, vpc>>
    /\ UNCHANGED <<rvars, mvars>>
    /\ UNCHANGED <<evars, dvars, svars>>

\* the text ends, with or without a newline after its last line, and the
\* three validators run on it
Validate(trailing_newline) ==
    /\ vpc = "building"
    /\ LET text == IF trailing_newline /\ code.raw # <<>>
                       THEN [code EXCEPT !.raw = Append(@, "\n")]
                       ELSE code
       IN  /\ code' = text
           /\ syntax_result' = validate_code_syntax(text)
           /\ security_result' = validate_code_security(text)
           /\ combined_result' = validate_code(text)
    /\ vpc' = "validated"
    /\ UNCHANGED <<rvars, mvars>>
    /\ UNCHANGED <<evars, dvars, svars>>

NextValidate ==
    \/ \E k \in 1..Len(ImportKinds) : AddImport(k)
    \/ \E k \in 1..Len(CallKinds) : AddCall(k)
    \/ \E k \in 1..Len(CredKinds) : AddCred(k)
    \/ \E n \in FuncCounts : AddFunctions(n)
    \/ AddClass
    \/ \E f \in ParseFailures : BreakSyntax(f)
    \/ \E trailing_newline \in BOOLEAN : Validate(trailing_newline)

(***************************************************************************)
(* Specification runs: a complete document (every tracked field present    *)
(* and well-formed) is changed in at most MaxEdits fields, or replaced by a *)
(* text that is no dictionary, then validated.                              *)
(***************************************************************************)
MaxEdits == 2          \* fields of the complete document that are changed or removed

NamedRecord == YDict([name |-> YStr("compute"), description |-> YStr("d")])
UnnamedRecord == YDict([description |-> YStr("d")])

\* the values tried for each field; the first is the complete document's
FieldValues(field) ==
    CASE field = "agent_name" -> <<YStr("portfolio_agent"), YStr(""), YInt("5")>>
      [] field = "agent_type" -> <<YStr("calculation"), YStr("analysis"), YList(<<YStr("calculation")>>)>>
      [] field = "version" -> <<YStr("1.0.0"), YStr("1.0"), YStr("1.x.0"), YFloat("1.0")>>
      [] field = "description" -> <<YStr("Computes portfolio metrics"), YStr("")>>
      [] field = "role" -> <<YStr("primary_agent"), YStr("helper")>>
      [] field = "capabilities" ->
            <<YList(<<NamedRecord>>), YList(<<>>), YList(<<NamedRecord, UnnamedRecord>>),
              YList(<<YStr("query"), YInt("5")>>), YDict([query |-> YStr("sql")]), YStr("query")>>
      [] field = "workflow" ->
            <<YDict([steps |-> YDict([load |-> YStr("read")])]),
              YDict([steps |-> YDict(NoEntries)]),
              YDict([description |-> YStr("d")]),
              YDict([steps |-> YList(<<YStr("load")>>)]),
              YList(<<YStr("load")>>)>>
      [] field = "dependencies" ->
            <<YDict([python_packages |-> YList(<<YStr("pandas")>>)]),
              YDict([python_packages |-> YList(<<>>)]),
              YList(<<YStr("pandas")>>)>>
      [] field = "data_sources" -> <<YList(<<YStr("postgresql")>>), YList(<<>>)>>
      [] field = "tools" -> <<YList(<<YStr("sql")>>), YList(<<>>)>>
      [] field = "performance" -> <<YDict([timeout |-> YInt("30")]), YDict(NoEntries)>>
      [] field = "logging" -> <<YDict([level |-> YStr("INFO")]), YDict(NoEntries)>>
      [] OTHER ->
            <<YDict([test_scenarios |-> YList(<<NamedRecord>>)]),
              YDict([test_scenarios |-> YList(<<UnnamedRecord>>)]),
              YDict([test_scenarios |-> YList(<<>>)]),
              YDict([test_scenarios |-> YStr("smoke")]),
              YDict([coverage |-> YInt("80")]),
              YList(<<YStr("smoke")>>),
              YNull>>

TrackedFields ==
    {REQUIRED_FIELDS[i] : i \in 1..Len(REQUIRED_FIELDS)}
        \cup {OPTIONAL_FIELDS[i] : i \in 1..Len(OPTIONAL_FIELDS)}

CompleteDocument ==
    [root |-> "dict", msg |-> "", fields |-> [f \in TrackedFields |-> FieldValues(f)[1]]]

\* texts that yaml.safe_load does not turn into a dictionary
NonDictionaries ==
    { [root |-> "other", msg |-> "", fields |-> NoEntries],
      [root |-> "YAMLError", msg |-> "mapping values are not allowed here", fields |-> NoEntries] }

InitDocument ==
    /\ IdleValidator
    /\ IdleRetry
    /\ IdleScript
    /\ document = CompleteDocument
    /\ edits = {}
    /\ strict_mode = TRUE
    /\ spec_outcome = NoOutcome
    /\ dpc = "editing"

SetField(field, k) ==
    /\ dpc = "editing" /\ document.root = "dict"
    /\ field \notin edits /\ Cardinality(edits) < MaxEdits
    /\ document' = [document EXCEPT !.fields[field] = FieldValues(field)[k]]
    /\ edits' = edits \cup {field}
    /\ UNCHANGED <<strict_mode, spec_outcome, dpc>>
    /\ UNCHANGED <<vvars, rvars, mvars, evars, svars>>

DelField(field) ==
    /\ dpc = "editing" /\ document.root = "dict"
    /\ field \notin edits /\ Cardinality(edits) < MaxEdits
    /\ document' = [document EXCEPT
            !.fields = [f \in (DOMAIN document.fields) \ {field} |-> document.fields[f]]]
    /\ edits' = edits \cup {field}
    /\ UNCHANGED <<strict_mode, spec_outcome, dpc>>
    /\ UNCHANGED <<vvars, rvars, mvars, evars, svars>>

ReplaceRoot(other) ==
    /\ dpc = "editing" /\ edits = {}
    /\ document' = other
    /\ edits' = {"root"}
    /\ UNCHANGED <<strict_mode, spec_outcome, dpc>>
    /\ UNCHANGED <<vvars, rvars, mvars, evars, svars>>

ValidateSpecification(strict) ==
    /\ dpc = "editing"
    /\ strict_mode' = strict
    /\ spec_outcome' = validate_specification(document, strict)
    /\ dpc' = "validated"
    /\ UNCHANGED <<document, edits>>
    /\ UNCHANGED <<vvars, rvars, mvars, evars, svars>>

NextDocument ==
    \/ \E field \in TrackedFields : \E k \in 2..Len(FieldValues(field)) : SetField(field, k)
    \/ \E field \in TrackedFields : DelField(field)
    \/ \E other \in NonDictionaries : ReplaceRoot(other)
    \/ \E strict \in BOOLEAN : ValidateSpecification(strict)

(***************************************************************************)
(* Script runs: a script is written finding by finding, then validated.    *)
(***************************************************************************)
MaxCredentials == 2    \* credential matches of a script

\* the credential matches tried, in the order of this table
CredentialFindings ==
    << [message |-> "Potential hardcoded password", env_near |-> FALSE],
       [message |-> "Potential hardcoded password", env_near |-> TRUE],
       [message |-> "Potential hardcoded API key", env_near |-> FALSE] >>

InitScript ==
    /\ IdleValidator
    /\ IdleRetry
    /\ IdleDocument
    /\ IdleScript

AddCredential(k) ==
    /\ spc = "idle" /\ script.parse = "ok"
    /\ Len(script.creds) < MaxCredentials
    /\ k >= LastKind(script.creds, CredentialFindings, {"message", "env_near"})
    /\ script' = [script EXCEPT !.creds = Append(@, CredentialFindings[k])]
    /\ UNCHANGED <<script_validation, executed, spc>>
    /\ UNCHANGED <<vvars, rvars, mvars, evars, dvars>>

AddWord(w) ==
    /\ spc = "idle" /\ script.parse = "ok"
    /\ w \notin script.words
    /\ script' = [script EXCEPT !.words = @ \cup {w}]
    /\ UNCHANGED <<script_validation, executed, spc>>
    /\ UNCHANGED <<vvars, rvars, mvars, evars, dvars>>

\* a script that does not parse; the scans still run on it
BreakScript(f) ==
    /\ spc = "idle" /\ script.parse = "ok"
    /\ script' = [script EXCEPT !.parse = f.parse, !.lineno = f.lineno, !.msg = f.msg]
    /\ UNCHANGED <<script_validation, executed, spc>>
    /\ UNCHANGED <<vvars, rvars, mvars, evars, dvars>>

ValidateScript(strict) ==
    /\ spc = "idle"
    /\ script_validation' = validate_script(script, strict)
    /\ spc' = IF strict THEN "validated strict" ELSE "validated"
    /\ UNCHANGED <<script, executed>>
    /\ UNCHANGED <<vvars, rvars, mvars, evars, dvars>>

NextScript ==
    \/ \E k \in 1..Len(CredentialFindings) : AddCredential(k)
    \/ \E w \in {"os.getenv", "eval", "exec", "logger", "try:", "pandas"} : AddWord(w)
    \/ \E f \in ParseFailures : BreakScript(f)
    \/ \E strict \in BOOLEAN : ValidateScript(strict)

vars == <<vvars, rvars, mvars, evars, dvars, svars>>

SpecValidate == InitValidate /\ [][NextValidate]_vars

Spec == Init /\ [][Next]_vars

SpecConcurrent == InitConcurrent /\ [][NextConcurrent]_vars

SpecDocument == InitDocument /\ [][NextDocument]_vars

SpecScript == InitScript /\ [][NextScript]_vars

(***************************************************************************)
(* Claims about the validators (checked under SpecValidate).               *)
(***************************************************************************)
WarningsOnly(res) ==
    /\ res.issues # <<>>
    /\ \A i \in 1..Len(res.issues) : res.issues[i].severity = "WARNING"

UncommonImportWarnings(res) ==
    Cardinality({i \in 1..Len(res.issues) :
        /\ res.issues[i].severity = "WARNING"
        /\ res.issues[i].issue_type = "security"})

Ended == pc # "generating"
Raised == error # NoError
NumCalls == Len(calls)
LastCall == calls[Len(calls)]

\* the response is a text the loop's validator rejects
FailsValidation(resp) ==
    /\ resp.ok
    /\ IF loop = "spec" THEN resp.text.yaml # "dict" ELSE resp.text.parse # "ok"

\* the message the validator gives for the failure
FailureMessage(resp) == resp.text.msg

\* everything a generation call was given
Instructions(call) == call.system_prompt \o call.user_prompt

\* C2 as stated: when every generated artifact fails validation and
\* max_retries = N >= 1, generate_agent_code_with_retry and generate_script
\* end after exactly N generation calls with an error that carries the
\* validation failure of the N-th attempt.
C2_AllFailExactlyN ==
    ( /\ loop \in {"code", "script"} /\ yaml_specification = "dict"
      /\ max_retries >= 1 /\ Ended
      /\ \A i \in 1..NumCalls : FailsValidation(calls[i].response) )
    => /\ NumCalls = max_retries
       /\ Raised
       /\ Contains(error.msg, FailureMessage(LastCall.response))

\* C3: when generate_agent_code_with_retry returns, the returned code is the
\* first response that parses, produced by the last of exactly k+1 generation
\* calls, and retry_count is k (0 and one call for a first-attempt pass); a
\* generate_script return is likewise the first parsing response, from the
\* last call made.
C3_FirstPassReturns ==
    (loop \in {"code", "script"} /\ result.returned) =>
        /\ NumCalls >= 1
        /\ LastCall.response.ok
        /\ LastCall.response.text = result.code
        /\ result.code.parse = "ok"
        /\ \A i \in 1..(NumCalls - 1) : ~(calls[i].response.ok /\ calls[i].response.text.parse = "ok")
        /\ LastCall.attempt = NumCalls - 1
        /\ loop = "code" => result.retry_count = NumCalls - 1

C3_Witness ==
    /\ loop = "code" /\ result.returned
    /\ result.retry_count = 2 /\ NumCalls = 3

\* C4: whatever a retry loop returns is the text its last generation call
\* produced, and that text passed the loop's validator: returned code and
\* scripts parse, returned specifications load as a dictionary.
C4_ReturnedArtifactParsed ==
    result.returned =>
        /\ NumCalls >= 1
        /\ LastCall.response.ok
        /\ result.code = LastCall.response.text
        /\ LastCall.attempt = attempt
        /\ IF loop = "spec" THEN result.code.yaml = "dict" ELSE result.code.parse = "ok"

C4_Witness ==
    /\ loop = "code" /\ result.returned /\ NumCalls = 2
    /\ calls[1].response.ok /\ calls[1].response.text.parse = "SyntaxError"

\* C5 as stated: a generation call that fails with a backend error is the last
\* generation call of the run, and the run has ended when it has failed.
C5_BackendErrorAborts ==
    \A i \in 1..NumCalls :
        ~calls[i].response.ok => (i = NumCalls /\ Ended /\ Raised)

C8_FeedbackFollowsFailure ==
    /\ NumCalls >= 1 =>
          Instructions(calls[1]) =
              CASE loop = "code" -> CODE_SYSTEM_PROMPT \o CodeUserPrompt(yaml_specification, <<>>)
                [] loop = "spec" -> SPEC_SYSTEM_PROMPT \o SpecUserPrompt(<<>>)
                [] OTHER -> SCRIPT_SYSTEM_PROMPT \o SCRIPT_USER_PROMPT
    /\ \A i \in 1..(NumCalls - 1) :
          FailsValidation(calls[i].response) =>
              Contains(Instructions(calls[i + 1]), FailureMessage(calls[i].response))

\* the feedback a failed attempt leaves for later ones (<<>>: none)
FeedbackOf(call) ==
    IF ~call.response.ok THEN <<>>
    ELSE IF loop = "code" THEN
        IF call.response.text.parse = "ok" THEN <<>>
        ELSE CodeFeedback(call.response.text, _check_syntax(call.response.text))
    ELSE IF call.response.text.parse = "SyntaxError" THEN ScriptFeedback(call.response.text)
    ELSE <<>>

RECURSIVE AllFeedback(_)
AllFeedback(k) == IF k = 0 THEN <<>> ELSE AllFeedback(k - 1) \o FeedbackOf(calls[k])

RECURSIVE LatestFeedback(_)
LatestFeedback(k) ==
    IF k = 0 THEN <<>>
    ELSE IF FeedbackOf(calls[k]) # <<>> THEN FeedbackOf(calls[k])
    ELSE LatestFeedback(k - 1)

OriginalInstructions ==
    IF loop = "code" THEN CODE_SYSTEM_PROMPT \o CodeUserPrompt(yaml_specification, <<>>)
    ELSE SCRIPT_SYSTEM_PROMPT \o SCRIPT_USER_PROMPT

\* C9 as stated: the instructions of every generation call hold the original
\* instructions in full and the feedback of every earlier failed attempt.
C9_FeedbackAccumulates ==
    loop \in {"code", "script"} =>
        \A k \in 1..NumCalls :
            /\ Embeds(Instructions(calls[k]), calls[k].user_prompt)
            /\ \A f \in {OriginalInstructions[j] : j \in 1..Len(OriginalInstructions)} :
                  Contains(Instructions(calls[k]), f)
            /\ \A i \in 1..(k - 1) : Embeds(Instructions(calls[k]), FeedbackOf(calls[i]))

\* C9 amended: feedback is concatenated to the original instructions, which
\* every call receives in full; generate_script's instructions hold the
\* feedback of every earlier failed attempt, in order, while those of
\* generate_agent_code_with_retry hold only the feedback of the most recent
\* failed attempt.
C9_FeedbackLatestOrAll ==
    \A k \in 1..NumCalls :
        /\ loop = "code" =>
              /\ calls[k].system_prompt = CODE_SYSTEM_PROMPT
              /\ calls[k].user_prompt =
                    CodeUserPrompt(yaml_specification, <<>>) \o LatestFeedback(k - 1)
        /\ loop = "script" =>
              /\ calls[k].user_prompt = SCRIPT_USER_PROMPT
              /\ calls[k].system_prompt = SCRIPT_SYSTEM_PROMPT \o AllFeedback(k - 1)

C9_Witness ==
    /\ loop = "script" /\ NumCalls = 3
    /\ calls[1].response.text = UnclosedParen
    /\ calls[2].response.text = BadIndent

\* the path an exhaustion error of generate_agent_code_with_retry names
ReferencedPath(err) ==
    LET at == CHOOSE i \in 1..Len(err.msg) : err.msg[i] = "Debug code at: "
    IN  SubSeq(err.msg, at + 1, Len(err.msg))

Exhausted == error.cls = "ValueError" /\ Contains(error.msg, "Last error: ")

\* C10: in generate_agent_code_with_retry the code of attempt n stays in
\* /tmp/generated_code_attempt_<n+1>.py for the rest of the run, and the error
\* raised on exhaustion holds the last attempt's syntax error and names the
\* file that holds exactly the last attempt's code.
C10_DebugArtifacts ==
    loop = "code" =>
        /\ \A i \in 1..NumCalls :
              calls[i].response.ok =>
                  files[<<"/tmp/generated_code_attempt_", ToString(calls[i].attempt + 1), ".py">>]
                      = calls[i].response.text
        /\ Exhausted =>
              /\ LastCall.attempt = max_retries - 1
              /\ Embeds(error.msg, _check_syntax(LastCall.response.text))
              /\ ReferencedPath(error) \in DOMAIN files
              /\ files[ReferencedPath(error)] = LastCall.response.text

C10_Witness ==
    /\ loop = "code" /\ Exhausted /\ max_retries = 3 /\ NumCalls = 3
    /\ calls[1].response.text = UnclosedParen
    /\ calls[2].response.text = DeepNesting
    /\ calls[3].response.text = BadIndent

(***************************************************************************)
(* Claims about concurrent invocations (checked under SpecConcurrent).     *)
(***************************************************************************)
\* the locals of invocation i, running or not
Invocation(i) ==
    IF peer.id = i THEN peer
    ELSE Locals(i, max_retries, attempt, pc, additional_instructions, calls, result, error)

InvocationExhausted(v) ==
    v.error.cls = "ValueError" /\ Contains(v.error.msg, "Last error: ")

\* C11 as stated: two concurrent invocations share no mutable state, so each
\* keeps what it has alone: the debug file of each of its attempts holds that
\* attempt's code, and the file its exhaustion error names holds the code of
\* its last attempt.
C11_IsolatedInvocations ==
    \A i \in {1, 2} :
        LET v == Invocation(i) IN
        /\ \A k \in 1..Len(v.calls) :
              v.calls[k].response.ok =>
                  files[<<"/tmp/generated_code_attempt_", ToString(v.calls[k].attempt + 1), ".py">>]
                      = v.calls[k].response.text
        /\ InvocationExhausted(v) =>
              files[ReferencedPath(v.error)] = v.calls[Len(v.calls)].response.text

(***************************************************************************)
(* Claims about cancellation (checked under Spec).                         *)
(***************************************************************************)
\* C12 as stated: once cancellation is requested after a failed attempt, the
\* retry loops make no further generation call.
C12_CancelStopsGeneration ==
    [][(cancel_requested /\ NumCalls >= 1 /\ FailsValidation(LastCall.response))
          => calls' = calls]_vars

(***************************************************************************)
(* Laws of the validators (checked under SpecValidate).                    *)
(***************************************************************************)
\* C13: for a text that fails to parse, validate_code returns the result of
\* validate_code_syntax: invalid, exactly one issue, an ERROR of type syntax;
\* validate_code_security is not run, so there is no security issue and no
\* risk.
C13_ShortCircuit ==
    (vpc = "validated" /\ code.parse # "ok") =>
        /\ ~combined_result.valid
        /\ Len(combined_result.issues) = 1
        /\ CountSeverity(combined_result.issues, "ERROR") = 1
        /\ \A i \in 1..Len(combined_result.issues) :
              combined_result.issues[i].issue_type = "syntax"
        /\ combined_result.risk_score = 0
        /\ combined_result = syntax_result

\* a SyntaxError without a line number; the security validator alone would
\* have reported a security ERROR with full risk
C13_Witness ==
    /\ vpc = "validated" /\ code.parse = "SyntaxError" /\ code.lineno = NoLineno
    /\ combined_result.issues[1].line_number = 0
    /\ security_result.risk_score = RISK_CAP
    /\ security_result.issues[1].issue_type = "security"

\* the denied call symbols, as the claim lists them
DeniedSymbols == {"eval", "exec", "compile", "__import__", "execfile", "input", "open"}

\* the call expressions of the text whose called name is denied
DeniedCalls(text) == {i \in 1..Len(text.calls) : text.calls[i].attr \in DeniedSymbols}

DangerousCallErrors(res) ==
    {j \in 1..Len(res.issues) :
        /\ res.issues[j].severity = "ERROR"
        /\ res.issues[j].message[1] = "Dangerous function call: "}

\* C14: a parsable text with k >= 1 calls of a denied name (direct or as an
\* attribute tail) is invalid, has one dangerous-call ERROR per occurrence, at
\* its line and naming it, and risk_score >= min(1.0, 0.3 k).
C14_MonotonicRisk ==
    (vpc = "validated" /\ code.parse = "ok" /\ DeniedCalls(code) # {}) =>
        \A r \in {security_result, combined_result} :
            LET k == Cardinality(DeniedCalls(code)) IN
            /\ ~r.valid
            /\ Cardinality(DangerousCallErrors(r)) = k
            /\ \A i \in DeniedCalls(code) :
                  \E j \in DangerousCallErrors(r) :
                      /\ r.issues[j].line_number = code.calls[i].lineno
                      /\ r.issues[j].message[2] = code.calls[i].attr
            /\ r.risk_score >= Min(10, 3 * k)

\* four denied calls, two of them attribute tails: the score is capped
C14_Witness ==
    /\ vpc = "validated" /\ Cardinality(DeniedCalls(code)) = 4
    /\ \E i \in DeniedCalls(code) : code.calls[i].kind = "attr"
    /\ \E i \in DeniedCalls(code) : code.calls[i].kind = "name"
    /\ security_result.risk_score = 10
    /\ CountSeverity(security_result.issues, "ERROR") = 4

\* the denied modules, as the claim lists them
DeniedModules == {"subprocess", "socket", "urllib", "pickle", "marshal", "ctypes", "cffi"}

\* the text is one import statement and nothing else
OnlyOneImport(text) ==
    /\ text.parse = "ok" /\ Len(text.imports) = 1
    /\ text.calls = <<>> /\ text.creds = <<>>
    /\ text.funcs = 0 /\ text.classes = 0 /\ text.other = 0

\* C15: a text that only imports one denied module (or a submodule of one),
\* by import or by from-import, gets exactly one ERROR, risk_score 0.4 and
\* valid = false.
C15_DeniedImportAlone ==
    (vpc = "validated" /\ OnlyOneImport(code) /\ code.imports[1].name[1] \in DeniedModules) =>
        /\ Len(security_result.issues) = 1
        /\ security_result.issues[1].severity = "ERROR"
        /\ security_result.issues[1].message[Len(security_result.issues[1].message)]
              = code.imports[1].name[1]
        /\ \A r \in {security_result, combined_result} :
              /\ CountSeverity(r.issues, "ERROR") = 1
              /\ r.risk_score = 4
              /\ ~r.valid

\* from urllib.request import urlopen
C15_Witness ==
    /\ vpc = "validated" /\ OnlyOneImport(code)
    /\ code.imports[1].form = "from" /\ code.imports[1].name = <<"urllib", "request">>
    /\ security_result.risk_score = 4 /\ ~combined_result.valid

\* C16: in every result of the three validators, error paths included,
\* valid holds exactly when no issue is an ERROR and risk_score < 0.5, and
\* risk_score lies in [0, 1].
C16_ValidIsDerived ==
    vpc = "validated" =>
        \A r \in {syntax_result, security_result, combined_result} :
            /\ r.valid = ( /\ \A i \in 1..Len(r.issues) : r.issues[i].severity # "ERROR"
                           /\ r.risk_score < 5 )
            /\ r.risk_score \in 0..10

\* five uncommon imports: invalid by the score alone, without any ERROR
C16_Witness ==
    /\ vpc = "validated" /\ code.parse = "ok"
    /\ \A i \in 1..Len(combined_result.issues) : combined_result.issues[i].severity = "WARNING"
    /\ combined_result.risk_score = 5
    /\ ~combined_result.valid /\ ~security_result.valid /\ syntax_result.valid

\* the name an import statement binds for a conditional module: the alias
\* when "as" is given, else the first component of the dotted name
BoundName(imp) == IF imp.asname # "" THEN imp.asname ELSE imp.name[1]

\* the calls of text whose receiver is a name bound to the conditional
\* module m and whose member is outside m's allow-list
RootedOutsideAllowList(text, m) ==
    {j \in 1..Len(text.calls) :
        /\ text.calls[j].kind = "attr"
        /\ text.calls[j].attr \notin CONDITIONAL_IMPORTS[m]
        /\ \E i \in 1..Len(text.imports) :
              /\ text.imports[i].form = "import"
              /\ text.imports[i].name # <<>>
              /\ text.imports[i].name[1] = m
              /\ BoundName(text.imports[i]) = text.calls[j].base}

\* C17: with os or sys imported, every attribute access rooted at the name
\* the import binds whose member is outside the module's allow-list yields
\* an ERROR (unsafe usage) at that line and the result is invalid.
C17_BoundNameAccessIsError ==
    (vpc = "validated" /\ code.parse = "ok") =>
        \A m \in {"os", "sys"} : \A j \in RootedOutsideAllowList(code, m) :
            /\ \E k \in 1..Len(security_result.issues) :
                  /\ security_result.issues[k].severity = "ERROR"
                  /\ security_result.issues[k].message[1] = "Unsafe usage of "
                  /\ security_result.issues[k].line_number = code.calls[j].lineno
            /\ ~security_result.valid
            /\ ~combined_result.valid

\* an import whose top-level module is in none of the denied, conditional
\* and allowed lists and does not start with the factory's own prefix
Unrecognized(imp) ==
    /\ imp.name # <<>>
    /\ imp.name[1] \notin DANGEROUS_IMPORTS
    /\ imp.name[1] \notin DOMAIN CONDITIONAL_IMPORTS
    /\ imp.name[1] \notin ALLOWED_IMPORTS
    /\ ~StartsWithMetaAgent(imp.name[1])

\* C18: every unrecognized import, in the form "import m" as in the form
\* "from m import x", yields exactly one WARNING and never an ERROR.
C18_UnrecognizedImportWarns ==
    (vpc = "validated" /\ code.parse = "ok") =>
        \A i \in 1..Len(code.imports) :
            Unrecognized(code.imports[i]) =>
                /\ Cardinality({k \in 1..Len(security_result.issues) :
                        /\ security_result.issues[k].severity = "WARNING"
                        /\ security_result.issues[k].line_number = code.imports[i].lineno
                        /\ security_result.issues[k].message[1] = "Uncommon import: "}) = 1
                /\ \A k \in 1..Len(security_result.issues) :
                        security_result.issues[k].line_number = code.imports[i].lineno
                            => security_result.issues[k].severity # "ERROR"

\* the positions of raw on the same line as position i: no newline lies
\* between them
SameLine(raw, i) ==
    {j \in 1..Len(raw) :
        \A k \in 1..Len(raw) : (Min(i, j) <= k /\ k <= Max(i, j)) => raw[k] # "\n"}

\* the credential matches of raw: positions of a token some pattern matches
CredMatches(raw) ==
    {i \in 1..Len(raw) : \E p \in 1..Len(hardcoded_patterns) : raw[i] \in hardcoded_patterns[p].matches}

\* 1 + the number of newlines before position i
LineOfPosition(raw, i) == 1 + Cardinality({k \in 1..(i - 1) : raw[k] = "\n"})

\* the credential ERRORs a result reports at a line
CredentialErrorsAt(res, line) ==
    {k \in 1..Len(res.issues) :
        /\ res.issues[k].severity = "ERROR"
        /\ res.issues[k].line_number = line
        /\ \E p \in 1..Len(hardcoded_patterns) :
              res.issues[k].message = <<hardcoded_patterns[p].message>>}

\* C19: a credential match on a line that bears a safe shape yields no
\* credential ERROR, wherever the line sits in the text, a last line with
\* no trailing newline included.
C19_SafeLineNeverFlagged ==
    (vpc = "validated" /\ code.parse = "ok") =>
        \A i \in CredMatches(code.raw) :
            (\E j \in SameLine(code.raw, i) : code.raw[j] \in safe_patterns)
                => CredentialErrorsAt(security_result, LineOfPosition(code.raw, i)) = {}

\* the credential matches of raw whose line bears no safe shape
UnsafeCredMatches(raw) ==
    {i \in CredMatches(raw) : \A j \in SameLine(raw, i) : raw[j] \notin safe_patterns}

\* C20: every credential match on a line with no safe shape yields one
\* ERROR whose line_number is 1 plus the number of newlines before the
\* match, adds 0.3 to the score, and the result is invalid.
C20_UnsafeCredentialFlagged ==
    (vpc = "validated" /\ code.parse = "ok") =>
        /\ \A i \in UnsafeCredMatches(code.raw) :
              /\ Cardinality(CredentialErrorsAt(security_result, LineOfPosition(code.raw, i))) = 1
              /\ ~security_result.valid
              /\ ~combined_result.valid
        /\ security_result.risk_score
              >= Min(RISK_CAP, RISK_HARDCODED * Cardinality(UnsafeCredMatches(code.raw)))

\* a hard-coded password on the third line or later, reported there
C20_Witness ==
    /\ vpc = "validated" /\ code.parse = "ok"
    /\ \E i \in UnsafeCredMatches(code.raw) :
          /\ LineOfPosition(code.raw, i) >= 3
          /\ CredentialErrorsAt(combined_result, LineOfPosition(code.raw, i)) # {}
    /\ security_result.risk_score = RISK_HARDCODED

(***************************************************************************)
(* Claims about validate_specification.                                    *)
(***************************************************************************)
RequiredFields ==
    {"agent_name", "agent_type", "version", "description", "role",
     "capabilities", "workflow", "dependencies"}

\* the types the schema accepts for a required field
AcceptedTypes(field) ==
    CASE field = "capabilities" -> {"list", "dict"}
      [] field \in {"workflow", "dependencies"} -> {"dict"}
      [] OTHER -> {"str"}

\* the issues of a severity a result reports for a field
IssuesFor(res, sev, field) ==
    {k \in 1..Len(res.issues) :
        res.issues[k].severity = sev /\ res.issues[k].field = <<field>>}

SeverityCount(res, sev) ==
    Cardinality({k \in 1..Len(res.issues) : res.issues[k].severity = sev})

Returned == dpc = "validated" /\ ~spec_outcome.raised

\* C21: the result is valid exactly when it holds no error issue, errors
\* and warnings count the issues of those severities, and a document that
\* lacks a required field or holds a wrong type for one gets an ERROR for
\* that field and is invalid.
C21_RequiredFieldsEnforced ==
    (dpc = "validated" /\ document.root = "dict") =>
        /\ ~spec_outcome.raised =>
              /\ spec_outcome.result.is_valid = (SeverityCount(spec_outcome.result, "error") = 0)
              /\ spec_outcome.result.errors = SeverityCount(spec_outcome.result, "error")
              /\ spec_outcome.result.warnings = SeverityCount(spec_outcome.result, "warning")
        /\ \A field \in RequiredFields :
              (\/ field \notin DOMAIN document.fields
               \/ document.fields[field].type \notin AcceptedTypes(field))
                 => /\ ~spec_outcome.raised
                    /\ IssuesFor(spec_outcome.result, "error", field) # {}
                    /\ ~spec_outcome.result.is_valid

TrackedFieldNames ==
    RequiredFields \cup {"data_sources", "tools", "performance", "logging", "testing"}

\* present and non-empty: a value that is not None, "", 0, [] or {}
NonEmpty(v) ==
    /\ v.type # "null"
    /\ v.type = "str" => v.s # ""
    /\ v.type \in {"int", "float"} => v.s \notin {"0", "0.0"}
    /\ v.type = "list" => Len(v.items) > 0
    /\ v.type = "dict" => DOMAIN v.map # {}

PresentAndNonEmpty(doc) ==
    {f \in TrackedFieldNames : f \in DOMAIN doc.fields /\ NonEmpty(doc.fields[f])}

KnownAgentTypes ==
    {"data_retrieval", "calculation", "validation", "orchestration", "monitoring",
     "transformation"}

KnownRoles == {"primary_agent", "secondary_agent", "support_agent", "orchestrator"}

\* field holds a string outside its vocabulary
UnknownValue(doc, field, vocabulary) ==
    /\ field \in DOMAIN doc.fields
    /\ doc.fields[field].type = "str"
    /\ doc.fields[field].s \notin vocabulary

\* C23: an agent_type or role outside the known vocabulary yields a WARNING
\* for that field and never an ERROR; with no other error the result is
\* valid.
C23_UnknownVocabularyWarns ==
    (Returned /\ document.root = "dict") =>
        \A field \in {"agent_type", "role"} :
            UnknownValue(document, field,
                         IF field = "agent_type" THEN KnownAgentTypes ELSE KnownRoles)
              => /\ Cardinality(IssuesFor(spec_outcome.result, "warning", field)) = 1
                 /\ IssuesFor(spec_outcome.result, "error", field) = {}
                 /\ (SeverityCount(spec_outcome.result, "error") = 0
                        => spec_outcome.result.is_valid)

\* unknown agent_type and unknown role in one document, still valid
C23_Witness ==
    /\ Returned /\ document.root = "dict"
    /\ UnknownValue(document, "agent_type", KnownAgentTypes)
    /\ UnknownValue(document, "role", KnownRoles)
    /\ spec_outcome.result.is_valid
    /\ spec_outcome.result.warnings = 2

\* the records of a list that carry no name key
UnnamedRecords(items) ==
    {i \in 1..Len(items) : items[i].type = "dict" /\ "name" \notin DOMAIN items[i].map}

\* the error issues a result reports for a list field or one of its records
ListErrors(res, field) ==
    {k \in 1..Len(res.issues) :
        /\ res.issues[k].severity = "error"
        /\ res.issues[k].field[1] \in {field, field \o "["}}

\* a list-of-records value obeys the rules of C24 in a result
ListRuleObeyed(res, field, v) ==
    /\ v.type # "list" => (ListErrors(res, field) # {} /\ ~res.is_valid)
    /\ v.type = "list" =>
          /\ Cardinality(ListErrors(res, field)) >= Cardinality(UnnamedRecords(v.items))
          /\ UnnamedRecords(v.items) # {} => ~res.is_valid
          /\ Len(v.items) = 0 =>
                /\ IssuesFor(res, "warning", field) # {}
                /\ ListErrors(res, field) = {}

\* C24: for capabilities and testing.test_scenarios, a value that is not a
\* list is an ERROR, every record of the list without a name key is an
\* ERROR, and an empty list is a WARNING only.
C24_ListsOfRecords ==
    (Returned /\ document.root = "dict") =>
        /\ "capabilities" \in DOMAIN document.fields
              => ListRuleObeyed(spec_outcome.result, "capabilities",
                                document.fields["capabilities"])
        /\ ( /\ "testing" \in DOMAIN document.fields
             /\ document.fields["testing"].type = "dict"
             /\ "test_scenarios" \in DOMAIN document.fields["testing"].map )
              => ListRuleObeyed(spec_outcome.result, "testing.test_scenarios",
                                document.fields["testing"].map["test_scenarios"])

\* the WARNINGs of a result that carry a message
WarningsSaying(res, message) ==
    {k \in 1..Len(res.issues) :
        res.issues[k].severity = "WARNING" /\ res.issues[k].message = <<message>>}

\* C25: a parsable text that defines neither a class nor a function gets
\* valid=true from validate_code_syntax, with the no-structure WARNING and
\* no ERROR; a text with no top-level statement also gets the
\* empty-artifact WARNING and is still valid.
C25_NoStructureWarnsOnly ==
    (vpc = "validated" /\ code.parse = "ok" /\ code.funcs = 0 /\ code.classes = 0) =>
        /\ syntax_result.valid
        /\ Cardinality(WarningsSaying(syntax_result, "Code contains no classes or functions")) = 1
        /\ \A k \in 1..Len(syntax_result.issues) : syntax_result.issues[k].severity # "ERROR"
        /\ (Cardinality(WarningsSaying(syntax_result, "Code is empty or contains only comments")) = 1)
              <=> (code.raw = <<>> /\ code.other = 0)

\* a text of statements only, and the empty text
C25_Witness ==
    /\ vpc = "validated" /\ code.parse = "ok" /\ code.funcs = 0 /\ code.classes = 0
    /\ Len(code.imports) > 0 /\ Len(code.calls) > 0
    /\ syntax_result.valid /\ Len(syntax_result.issues) = 1

\* C26: for every max_retries, 0 included, and every behaviour of the
\* generator, a retry loop makes at most max_retries generation calls and
\* ends either with a returned artifact or with a raised error, never with
\* a normal return that carries no artifact.
C26_EndsWithArtifactOrError ==
    loop \in {"code", "script"} =>
        /\ NumCalls <= max_retries
        /\ Ended => (result.returned /\ ~Raised) \/ (~result.returned /\ Raised)

\* C27: a parse failure on an attempt that is not the last never ends the
\* run, whether or not it carries a line number and whatever exception the
\* parser raised: the loop goes on to another generation call.
C27_ParseFailureRetried ==
    ( /\ loop \in {"code", "script"} /\ yaml_specification = "dict"
      /\ NumCalls >= 1 /\ NumCalls < max_retries
      /\ FailsValidation(LastCall.response) )
    => ~Ended

(***************************************************************************)
(* C28  validate_script                                                    *)
(***************************************************************************)
ScriptValidated == spc \in {"validated", "validated strict"}

ScriptErrors == {i \in 1..Len(script_validation.issues) :
                    script_validation.issues[i].severity = "error"}

\* what a security issue takes from the score, by its message
Deduction(issue) ==
    IF issue.category # "security" THEN 0
    ELSE IF issue.message = <<"No environment variable usage detected">> THEN 10
    ELSE IF issue.message[1] \in {dangerous_patterns[p].message : p \in 1..Len(dangerous_patterns)}
        THEN 15
    ELSE 20

RECURSIVE Deductions(_)
Deductions(issues) ==
    IF issues = <<>> THEN 0 ELSE Deduction(Head(issues)) + Deductions(Tail(issues))

WrongTyped(doc) ==
    {f \in RequiredFields :
        f \in DOMAIN doc.fields /\ doc.fields[f].type \notin AcceptedTypes(f)}

\* C30: every call ends with a result; malformed YAML, a root that is no
\* dictionary and a required field of the wrong type are reported as error
\* issues of an invalid result, never raised.
C30_AlwaysAResult ==
    dpc = "validated" =>
        /\ ~spec_outcome.raised
        /\ (document.root # "dict" \/ WrongTyped(document) # {}) =>
              /\ ~spec_outcome.result.is_valid
              /\ SeverityCount(spec_outcome.result, "error") >= 1

=============================================================================
